---- MODULE Spec2Model ----
(***************************************************************************)
(* A model of the schema-markup wizard: the App component's handlers       *)
(* (handleConnect, runManualCrawl, runAutoPilot, performAnalysis,          *)
(* performGeneration, performInjection, handleInject, ...) and the         *)
(* services they call (analyzeUrl, injectSchema, validateSchemaClientSide, *)
(* the AI facade).  Every await of the code is a point where the model     *)
(* lets other callbacks run; network and AI outcomes are chosen by \E.     *)
(***************************************************************************)
EXTENDS Integers, Sequences, FiniteSets, TLC

(***************************************************************************)
(* Bounds of the model.                                                    *)
(***************************************************************************)
MaxAnalysisUrls == 12
MaxInjectRecords == 6
MaxInjectCalls == 2
MaxGenRuns == 2
MaxFlowGenerations == 1
MaxGenUrls == 3
MaxAnalyzeCalls == 2
MaxFetchCalls == 2
MaxSitemapDepth == 6

(***************************************************************************)
(* Program constants.                                                      *)
(***************************************************************************)
CONCURRENCY_LIMIT == 10
BATCH_SIZE == 5

Undef == "undefined"
Null == "null"

(* undefined and null where the value, when present, is an object rather
   than a string. *)
UndefObj == [absent |-> "undefined"]
NullObj == [absent |-> "null"]

SeqToSet(s) == {s[k] : k \in 1..Len(s)}

RECURSIVE FilterSeq(_, _)
(* Array.prototype.filter with the predicate given as the set of kept values. *)
FilterSeq(s, keep) ==
    IF s = <<>> THEN <<>>
    ELSE IF Head(s) \in keep THEN <<Head(s)>> \o FilterSeq(Tail(s), keep)
    ELSE FilterSeq(Tail(s), keep)

(***************************************************************************)
(* types.ts                                                                *)
(***************************************************************************)
SchemaStatus ==
    {"Unknown", "Found", "NotFound", "AnalysisFailed", "AuditRecommended", "Cached"}

SchemaType ==
    {"Article", "Product", "Recipe", "LocalBusiness", "Organization", "WebPage",
     "FAQPage", "HowTo", "VideoObject"}

(* The providers of the AI facade: Gemini, and OpenAI for the four that go
   through the OpenAI-compatible service (OpenAI, Groq, Claude, OpenRouter). *)
AiProvider == {"Google Gemini", "OpenAI"}

(* The AI configuration of the credentials form as it is first shown. *)
FormAiConfig == [provider |-> "Google Gemini"]

(***************************************************************************)
(* The site behind the URLs.  A page URL is a number; what the server      *)
(* answers for it is fixed: pages 1 and 2 carry no JSON-LD script (page 2  *)
(* has neither a title nor body text), page 4 answers HTTP 500, every     *)
(* other page carries a JSON-LD script, whose body parses as JSON except   *)
(* on page 5.  Whether the network lets a request through is chosen per    *)
(* call.                                                                   *)
(***************************************************************************)
ServerResponse(u) ==
    IF u = 1 THEN
        [status |-> 200, title |-> "Title", hasLdJson |-> FALSE,
         ldJsonParses |-> FALSE, text |-> "text"]
    ELSE IF u = 2 THEN
        [status |-> 200, title |-> "", hasLdJson |-> FALSE,
         ldJsonParses |-> FALSE, text |-> ""]
    ELSE IF u = 4 THEN
        [status |-> 500, title |-> "", hasLdJson |-> FALSE,
         ldJsonParses |-> FALSE, text |-> ""]
    ELSE
        [status |-> 200, title |-> "Title", hasLdJson |-> TRUE,
         ldJsonParses |-> u # 5, text |-> "text"]

NoResponse ==
    [status |-> 0, title |-> "", hasLdJson |-> FALSE, ldJsonParses |-> FALSE,
     text |-> ""]

(* One call of the platform's fetch: the server's response when the network
   outcome is "ok", a rejection with the named error otherwise. *)
Fetch(net, server) ==
    IF net = "ok" THEN [kind |-> "response", response |-> server, error |-> Undef]
    ELSE [kind |-> "throw", response |-> NoResponse, error |-> net]

NetOutcomes == {"ok", "TypeError"}

(***************************************************************************)
(* wordpressService.ts                                                     *)
(***************************************************************************)
BothFailedMessage ==
    "Failed to fetch via both direct connection and proxy. The server may be down or blocking requests."

(* A gateway that also retries through the proxy when the direct response
   carries an HTTP error status. *)
fetchWithCorsFallbackOnHttpError(direct, proxy) ==
    IF direct.kind = "response" /\ direct.response.status < 400 THEN
        [kind |-> "response", response |-> direct.response, message |-> Undef,
         attempts |-> <<"direct">>]
    ELSE IF direct.kind = "response" \/ direct.error = "TypeError" THEN
        IF proxy.kind = "response" THEN
            [kind |-> "response", response |-> proxy.response, message |-> Undef,
             attempts |-> <<"direct", "proxy">>]
        ELSE
            [kind |-> "throw", response |-> NoResponse, message |-> BothFailedMessage,
             attempts |-> <<"direct", "proxy">>]
    ELSE
        [kind |-> "throw", response |-> NoResponse, message |-> direct.error,
         attempts |-> <<"direct">>]

(* A gateway that gives up after the direct attempt. *)
fetchWithCorsFallbackDirectOnly(direct, proxy) ==
    IF direct.kind = "response" THEN
        [kind |-> "response", response |-> direct.response, message |-> Undef,
         attempts |-> <<"direct">>]
    ELSE
        [kind |-> "throw", response |-> NoResponse,
         message |-> IF direct.error = "TypeError" THEN BothFailedMessage
                     ELSE direct.error,
         attempts |-> <<"direct">>]

(* direct and proxy are the outcomes of the direct fetch and of the fetch
   through the CORS proxy (made only when the code makes it). *)
fetchWithCorsFallback(direct, proxy) ==
    IF direct.kind = "response" THEN
        [kind |-> "response", response |-> direct.response, message |-> Undef,
         attempts |-> <<"direct">>]
    ELSE IF direct.error = "TypeError" THEN
        IF proxy.kind = "response" THEN
            [kind |-> "response", response |-> proxy.response, message |-> Undef,
             attempts |-> <<"direct", "proxy">>]
        ELSE
            [kind |-> "throw", response |-> NoResponse, message |-> BothFailedMessage,
             attempts |-> <<"direct", "proxy">>]
    ELSE
        [kind |-> "throw", response |-> NoResponse, message |-> direct.error,
         attempts |-> <<"direct">>]

ResponseOk(response) == response.status >= 200 /\ response.status <= 299

StatusMessage(status) ==
    IF status = 500 THEN "Server responded with status 500"
    ELSE IF status = 404 THEN "Server responded with status 404"
    ELSE "Server responded with status"

(* A page record.  A field the code leaves out of the object is Undef here,
   UndefObj for the schema, and the empty list for the three list fields
   (the code reads those only through their length and their elements).
   No code of the repository assigns existingSchema. *)
UrlInfo(url, title, schemaStatus, content, analysisError) ==
    [url |-> url, title |-> title, schemaStatus |-> schemaStatus,
     content |-> content, analysisError |-> analysisError,
     selectedSchemaType |-> Undef, opportunities |-> <<>>,
     generationStatus |-> Undef, validationStatus |-> Undef,
     schema |-> UndefObj, validationErrors |-> <<>>,
     validationWarnings |-> <<>>,
     generationError |-> Undef, existingSchema |-> Undef,
     injectionStatus |-> Undef, injectionError |-> Undef]

AnalysisFailedRecord(url, errorMessage) ==
    UrlInfo(url, "Failed to analyze URL", "AnalysisFailed", Undef, errorMessage)

(* analyzeUrl without its response.ok test. *)
analyzeUrlIgnoringStatus(url, direct, proxy) ==
    LET r == fetchWithCorsFallback(direct, proxy) IN
    IF r.kind = "throw" THEN AnalysisFailedRecord(url, r.message)
    ELSE UrlInfo(url,
                 IF r.response.title = "" THEN "No Title Found" ELSE r.response.title,
                 IF r.response.hasLdJson THEN "Found" ELSE "NotFound",
                 r.response.text,
                 Undef)

analyzeUrl(url, direct, proxy) ==
    LET r == fetchWithCorsFallback(direct, proxy) IN
    IF r.kind = "throw" THEN AnalysisFailedRecord(url, r.message)
    ELSE IF ~ResponseOk(r.response) THEN
        AnalysisFailedRecord(url, StatusMessage(r.response.status))
    ELSE
        UrlInfo(url,
                IF r.response.title = "" THEN "No Title Found" ELSE r.response.title,
                IF r.response.hasLdJson THEN "Found" ELSE "NotFound",
                r.response.text,
                Undef)

(***************************************************************************)
(* validationService.ts.  A JSON-LD entity is [atType, props]: props maps  *)
(* each key of the object to the kind of its value: "null", "undefined",   *)
(* "" (the empty string), "ok" (a value the deep checks accept) or "bad"   *)
(* (a value they reject: an author without a name, an unparsable date, an  *)
(* offer without price, a string address, an invalid image URL).  A schema *)
(* is an entity with a graph, the sequence of entities of its @graph       *)
(* array (empty when it has none: the code finds no entity in either      *)
(* case).  NullObj is the null schema.                                     *)
(***************************************************************************)
(* A hasProperty that only looks for the key. *)
hasPropertyKeyOnly(obj, prop) == prop \in DOMAIN obj.props

hasProperty(obj, prop) ==
    /\ prop \in DOMAIN obj.props
    /\ obj.props[prop] \notin {"null", "undefined", ""}

validationRules ==
    [Article |-> [required |-> <<"headline", "datePublished">>,
                  recommended |-> <<"author", "publisher", "image">>],
     Product |-> [required |-> <<"name", "offers">>,
                  recommended |-> <<"image", "description", "sku", "brand">>],
     Recipe |-> [required |-> <<"name", "recipeIngredient">>,
                 recommended |-> <<"image", "author", "cookTime", "recipeInstructions">>],
     LocalBusiness |-> [required |-> <<"name", "address">>,
                        recommended |-> <<"telephone", "openingHoursSpecification", "geo">>],
     Organization |-> [required |-> <<"name">>,
                       recommended |-> <<"logo", "url", "address">>],
     WebPage |-> [required |-> <<"headline">>,
                  recommended |-> <<"datePublished", "mainEntity">>],
     FAQPage |-> [required |-> <<"mainEntity">>, recommended |-> <<>>],
     HowTo |-> [required |-> <<"name", "step">>,
                recommended |-> <<"totalTime", "estimatedCost", "supply", "tool">>],
     VideoObject |-> [required |-> <<"name", "description", "uploadDate", "thumbnailUrl">>,
                      recommended |-> <<"duration", "contentUrl">>]]

(* The @type value of an entity is [array, names]: a string (array FALSE,
   one name) or an array of strings. *)
TypeString(name) == [array |-> FALSE, names |-> <<name>>]

(* schema['@type'] === schemaType *)
TypeIs(entity, schemaType) == entity.atType = TypeString(schemaType)

(* Array.isArray(entity['@type']) && entity['@type'].includes(schemaType) *)
TypeIncludes(entity, schemaType) ==
    entity.atType.array /\ schemaType \in SeqToSet(entity.atType.names)

findPrimaryEntity(schema, schemaType) ==
    IF TypeIs(schema, schemaType)
    THEN [atType |-> schema.atType, props |-> schema.props]
    ELSE IF schema.graph # <<>> THEN
        LET hits == {k \in 1..Len(schema.graph) :
                        \/ TypeIs(schema.graph[k], schemaType)
                        \/ TypeIncludes(schema.graph[k], schemaType)}
        IN IF hits = {} THEN NullObj
           ELSE schema.graph[CHOOSE k \in hits : \A j \in hits : k <= j]
    ELSE NullObj

(* The properties validateEntityProperties looks into, in its order, with
   the code and the property name of the error a rejected value gives. *)
DeepChecks(type) ==
    (IF type = "Article"
     THEN <<[of |-> "author", code |-> "INVALID_STRUCTURE", property |-> "author[0]"],
            [of |-> "publisher", code |-> "INVALID_STRUCTURE", property |-> "publisher"],
            [of |-> "datePublished", code |-> "INVALID_FORMAT", property |-> "datePublished"]>>
     ELSE IF type = "Product"
     THEN <<[of |-> "offers", code |-> "MISSING_REQUIRED", property |-> "offers[0]"]>>
     ELSE IF type = "LocalBusiness"
     THEN <<[of |-> "address", code |-> "INVALID_STRUCTURE", property |-> "address"]>>
     ELSE <<>>)
    \o <<[of |-> "image", code |-> "INVALID_FORMAT", property |-> "image[0]"]>>

RECURSIVE MissingDetails(_, _, _)
(* One detail with the code for each property of props that entity lacks. *)
MissingDetails(entity, props, code) ==
    IF props = <<>> THEN <<>>
    ELSE (IF hasProperty(entity, Head(props)) THEN <<>>
          ELSE <<[code |-> code, property |-> Head(props)]>>)
         \o MissingDetails(entity, Tail(props), code)

RECURSIVE validateEntityProperties(_, _)
(* The errors of the deep checks, given as the list still to check. *)
validateEntityProperties(entity, checks) ==
    IF checks = <<>> THEN <<>>
    ELSE (IF hasProperty(entity, Head(checks).of)
             /\ entity.props[Head(checks).of] = "bad"
          THEN <<[code |-> Head(checks).code, property |-> Head(checks).property]>>
          ELSE <<>>)
         \o validateEntityProperties(entity, Tail(checks))

validateSchemaClientSide(schema, schemaType) ==
    IF schema = NullObj \/ schema = UndefObj THEN
        [isValid |-> FALSE,
         errors |-> <<[code |-> "GENERIC_ERROR", property |-> Undef]>>,
         warnings |-> <<>>]
    ELSE
    LET primaryEntity == findPrimaryEntity(schema, schemaType) IN
    IF primaryEntity = NullObj THEN
        [isValid |-> FALSE,
         errors |-> <<[code |-> "MISSING_PRIMARY_ENTITY", property |-> Undef]>>,
         warnings |-> <<>>]
    ELSE IF schemaType \notin DOMAIN validationRules THEN
        [isValid |-> TRUE, errors |-> <<>>,
         warnings |-> <<[code |-> "GENERIC_ERROR", property |-> Undef]>>]
    ELSE
    LET rules == validationRules[schemaType]
        missing == MissingDetails(primaryEntity, rules.required, "MISSING_REQUIRED")
        warnings == MissingDetails(primaryEntity, rules.recommended, "MISSING_RECOMMENDED")
        errors == IF missing = <<>>
                  THEN validateEntityProperties(primaryEntity, DeepChecks(schemaType))
                  ELSE missing
    IN [isValid |-> errors = <<>>, errors |-> errors, warnings |-> warnings]

NoType == [array |-> FALSE, names |-> <<>>]

(***************************************************************************)
(* wordpressService.ts: injectSchema.  sc is what WordPress and the        *)
(* network do for one call: slug is the last path segment of the URL (""   *)
(* when the path has none); posts and pages are the outcomes of the two    *)
(* slug lookups ("found", "empty", "http_error", "throw"); updatePosts and *)
(* updatePages are the outcomes of the POST to each endpoint ("ok", "404", *)
(* "error_message": a non-404 error whose JSON body has a message,         *)
(* "error_no_message": one whose body has none, "error_bad_json": one      *)
(* whose body does not parse, "throw": the request itself failed).         *)
(***************************************************************************)
getPostIdFromUrl(sc) ==
    IF sc.slug = "" THEN [postId |-> Null, requests |-> <<>>]
    ELSE IF sc.posts = "throw" THEN
        [postId |-> Null, requests |-> <<"GET posts">>]
    ELSE IF sc.posts = "found" THEN
        [postId |-> "id", requests |-> <<"GET posts">>]
    ELSE IF sc.pages = "throw" THEN
        [postId |-> Null, requests |-> <<"GET posts", "GET pages">>]
    ELSE IF sc.pages = "found" THEN
        [postId |-> "id", requests |-> <<"GET posts", "GET pages">>]
    ELSE [postId |-> Null, requests |-> <<"GET posts", "GET pages">>]

(* A list of candidate types without the pages endpoint. *)
postTypesToTryPostsOnly == <<"posts">>

postTypesToTry == <<"posts", "pages">>

UpdateOutcome(sc, postType) ==
    IF postType = "posts" THEN sc.updatePosts ELSE sc.updatePages

RECURSIVE InjectLoop(_, _, _)
(* The for loop of injectSchema over the post types still to try. *)
InjectLoop(sc, types, requests) ==
    IF types = <<>> THEN
        [success |-> FALSE,
         error |-> "Could not find post/page with ID in common post types.",
         requests |-> requests]
    ELSE
    LET outcome == UpdateOutcome(sc, Head(types))
        made == Append(requests, "POST " \o Head(types))
    IN IF outcome = "ok" THEN
           [success |-> TRUE, error |-> Undef, requests |-> made]
       ELSE IF outcome = "error_message" THEN
           [success |-> FALSE, error |-> "API error message", requests |-> made]
       ELSE IF outcome = "error_no_message" THEN
           [success |-> FALSE, error |-> "Failed to inject schema. Status",
            requests |-> made]
       ELSE InjectLoop(sc, Tail(types), made)

injectSchema(sc) ==
    LET lookup == getPostIdFromUrl(sc) IN
    IF lookup.postId = Null THEN
        [success |-> FALSE,
         error |-> "Could not find a matching post/page in WordPress for URL",
         requests |-> lookup.requests]
    ELSE InjectLoop(sc, postTypesToTry, lookup.requests)

(* The WordPress site: odd page numbers are posts, even ones are pages.  Per
   call the REST API answers normally ("ok"), refuses the write with an error
   message ("rest_error"), or cannot be reached ("network_down"). *)
WpNets == {"ok", "rest_error", "network_down"}

WpScenario(u, net) ==
    IF net = "network_down" THEN
        [slug |-> "slug", posts |-> "throw", pages |-> "throw",
         updatePosts |-> "throw", updatePages |-> "throw"]
    ELSE IF u % 2 = 1 THEN
        [slug |-> "slug", posts |-> "found", pages |-> "empty",
         updatePosts |-> IF net = "ok" THEN "ok" ELSE "error_message",
         updatePages |-> "404"]
    ELSE
        [slug |-> "slug", posts |-> "empty", pages |-> "found",
         updatePosts |-> "404",
         updatePages |-> IF net = "ok" THEN "ok" ELSE "error_message"]

(***************************************************************************)
(* State.  The first group is the App component's React state; task is the *)
(* position of the one handler that runs behind the loading overlay        *)
(* (handleConnect, handleStartAnalysis or handleInject); an, gens and inj  *)
(* are the activations of performAnalysis, performGeneration and           *)
(* performInjection; hist records which calls were made, for the claims.   *)
(***************************************************************************)
VARIABLES step, isLoading, error, wpCreds, aiConfig, businessInfo,
          sitemapGroups, categorizedSitemaps, selectedSitemaps,
          urlList, selectedUrls, generationProgress, injectionResults,
          task, an, gens, inj, hist

appVars == <<step, isLoading, error, wpCreds, aiConfig, businessInfo,
             sitemapGroups, categorizedSitemaps, selectedSitemaps,
             urlList, selectedUrls, generationProgress, injectionResults>>

vars == <<step, isLoading, error, wpCreds, aiConfig, businessInfo,
          sitemapGroups, categorizedSitemaps, selectedSitemaps,
          urlList, selectedUrls, generationProgress, injectionResults,
          task, an, gens, inj, hist>>

(***************************************************************************)
(* performAnalysis (App)                                                   *)
(***************************************************************************)
AnIdle ==
    [pc |-> "idle", caller |-> "none", urlsToAnalyze |-> <<>>, i |-> 0,
     inflight |-> {}, issued |-> {}, settled |-> <<>>, analysisResults |-> <<>>,
     suggestions |-> <<>>, opportunities |-> <<>>, oppIdx |-> 0,
     result |-> <<>>, errorMessage |-> Undef, fetchFailed |-> {}]

(* A slice one element wider than CONCURRENCY_LIMIT. *)
BatchPositionsWider(a) ==
    {p \in 1..Len(a.urlsToAnalyze) : p > a.i /\ p <= a.i + CONCURRENCY_LIMIT + 1}

(* The positions of urlsToAnalyze.slice(i, i + CONCURRENCY_LIMIT). *)
BatchPositions(a) ==
    {p \in 1..Len(a.urlsToAnalyze) : p > a.i /\ p <= a.i + CONCURRENCY_LIMIT}

(* await Promise.all(promises): resumes once every promise of the batch settled. *)
PromiseAllSettled(inflight) == inflight = {}

(* The results in the order opposite to that of the promises. *)
PromiseAllReversed(positions, settled) ==
    LET hi == IF positions = {} THEN 0
              ELSE CHOOSE p \in positions : \A q \in positions : p >= q
    IN [k \in 1..Cardinality(positions) |-> settled[hi - k + 1]]

(* The value of Promise.all: the results in the order of the promises. *)
PromiseAll(positions, settled) ==
    LET lo == IF positions = {} THEN 1
              ELSE CHOOSE p \in positions : \A q \in positions : p <= q
    IN [k \in 1..Cardinality(positions) |-> settled[lo + k - 1]]

(* analysisResults.filter(NotFound and title !== 'Failed to analyze URL') *)
UrlsToSuggest(results) ==
    {results[k].url : k \in {j \in 1..Len(results) :
        results[j].schemaStatus = "NotFound"
        /\ results[j].title # "Failed to analyze URL"}}

(* analysisResults.filter(NotFound and content), as the positions kept. *)
OpportunityPositions(results) ==
    {k \in 1..Len(results) :
        results[k].schemaStatus = "NotFound"
        /\ results[k].content # Undef /\ results[k].content # ""}

RECURSIVE SetToSortedSeq(_)
SetToSortedSeq(S) ==
    IF S = {} THEN <<>>
    ELSE LET m == CHOOSE x \in S : \A y \in S : x <= y
         IN <<m>> \o SetToSortedSeq(S \ {m})

(* The final map of performAnalysis: every record gets its type, its
   opportunities and the two initial statuses. *)
FinalMap(results, suggestions, opportunities) ==
    [k \in 1..Len(results) |->
        [results[k] EXCEPT
            !.selectedSchemaType =
                IF results[k].url \in DOMAIN suggestions
                THEN suggestions[results[k].url] ELSE "Article",
            !.opportunities =
                IF results[k].url \in DOMAIN opportunities
                THEN opportunities[results[k].url] ELSE <<>>,
            !.generationStatus = "NotStarted",
            !.validationStatus = "NotValidated"]]

AnReturn(a) ==
    [a EXCEPT !.pc = "returned",
              !.result = FinalMap(a.analysisResults, a.suggestions, a.opportunities)]

(* From the opportunity loop's head. *)
AnOpportunityStage(a) ==
    IF a.oppIdx < Cardinality(OpportunityPositions(a.analysisResults))
    THEN [a EXCEPT !.pc = "await_opportunity"]
    ELSE AnReturn(a)

(* After the batch loop: the one suggestSchemaTypes call, if any page needs it. *)
AnAfterLoop(a) ==
    IF UrlsToSuggest(a.analysisResults) # {}
    THEN [a EXCEPT !.pc = "await_suggest"]
    ELSE AnOpportunityStage(a)

(* The head of the batch loop: issue the analyzeUrl calls of the next batch. *)
AnLoopHead(a) ==
    IF a.i < Len(a.urlsToAnalyze)
    THEN [a EXCEPT !.pc = "await_batch",
                   !.inflight = BatchPositions(a),
                   !.issued = a.issued \cup BatchPositions(a),
                   !.settled = <<>>]
    ELSE AnAfterLoop(a)

performAnalysis(urlsToAnalyze, caller) ==
    AnLoopHead([AnIdle EXCEPT !.caller = caller, !.urlsToAnalyze = urlsToAnalyze])

(* Whether the page fetch of one analyzeUrl call failed: the request got no
   response (directly or through the proxy) or a non-OK HTTP status. *)
PageFetchFailed(direct, proxy) ==
    LET r == fetchWithCorsFallback(direct, proxy) IN
    r.kind = "throw" \/ ~ResponseOk(r.response)

(* One analyzeUrl call of the batch in flight settles; fetchFailed records
   the positions whose page fetch failed. *)
AnalyzeUrlSettle ==
    /\ an.pc = "await_batch"
    /\ \E p \in an.inflight, direct \in NetOutcomes, proxy \in NetOutcomes :
        LET url == an.urlsToAnalyze[p]
            rec == analyzeUrl(url, Fetch(direct, ServerResponse(url)),
                                   Fetch(proxy, ServerResponse(url)))
        IN an' = [an EXCEPT
                    !.inflight = @ \ {p},
                    !.settled = @ @@ (p :> rec),
                    !.fetchFailed =
                        IF PageFetchFailed(Fetch(direct, ServerResponse(url)),
                                           Fetch(proxy, ServerResponse(url)))
                        THEN @ \cup {p} ELSE @]
    /\ UNCHANGED <<appVars, task, gens, inj, hist>>

(* The continuation of await Promise.all(promises) in the batch loop. *)
AnalysisBatchResume ==
    /\ an.pc = "await_batch"
    /\ PromiseAllSettled(an.inflight)
    /\ an' = AnLoopHead([an EXCEPT
                !.analysisResults = @ \o PromiseAll(BatchPositions(an), an.settled),
                !.i = @ + CONCURRENCY_LIMIT])
    /\ UNCHANGED <<appVars, task, gens, inj, hist>>

(* What the AI may give as a parsed answer to the type-suggestion request
   for the pages U: a JSON object naming a type for each page, Product for
   all of them or "Widget", which is not a SchemaType, for the odd ones. *)
SuggestAnswers(U) ==
    {[u \in U |-> "Product"], [u \in U |-> IF u % 2 = 1 THEN "Widget" ELSE "Product"]}

(* A suggestSchemaTypes that trusts the answer as it is. *)
suggestSchemaTypesUnfiltered(parsed) == parsed

(* suggestSchemaTypesWithGemini / ...WithOpenAI on a parsed answer: keeps the
   pairs whose type is in the enumeration. *)
suggestSchemaTypes(parsed) ==
    [u \in {x \in DOMAIN parsed : parsed[x] \in SchemaType} |-> parsed[u]]

(* The suggestSchemaTypes call settles: it throws when the request failed or
   the answer did not parse, and performAnalysis does not catch that. *)
SuggestSettle ==
    /\ an.pc = "await_suggest"
    /\ \/ an' = [an EXCEPT !.pc = "thrown",
                           !.errorMessage = "AI failed to suggest schema types."]
       \/ \E answer \in SuggestAnswers(UrlsToSuggest(an.analysisResults)) :
            an' = AnOpportunityStage([an EXCEPT
                        !.suggestions = suggestSchemaTypes(answer)])
    /\ UNCHANGED <<appVars, task, gens, inj, hist>>

(* What the AI may answer to one opportunity request: <<"error">> stands for
   a failed call or an unparsable answer, the others for the parsed list. *)
OpportunityAnswers == {<<"error">>, <<"Recipe", "HowTo">>}

(* detectSchemaOpportunitiesWith...: [] on empty content or failure, else the
   answer filtered to FAQPage and HowTo. *)
detectSchemaOpportunities(content, answer) ==
    IF content = "" \/ content = Undef THEN <<>>
    ELSE IF answer = <<"error">> THEN <<>>
    ELSE FilterSeq(answer, {"FAQPage", "HowTo"})

DetectOpportunitiesSettle ==
    /\ an.pc = "await_opportunity"
    /\ \E answer \in OpportunityAnswers :
        LET ps == SetToSortedSeq(OpportunityPositions(an.analysisResults))
            rec == an.analysisResults[ps[an.oppIdx + 1]]
        IN an' = AnOpportunityStage([an EXCEPT
                    !.opportunities =
                        @ @@ (rec.url :> detectSchemaOpportunities(rec.content, answer)),
                    !.oppIdx = @ + 1])
    /\ UNCHANGED <<appVars, task, gens, inj, hist>>

(***************************************************************************)
(* performInjection (App)                                                  *)
(***************************************************************************)
InjIdle ==
    [pc |-> "idle", caller |-> "none", schemasToInject |-> <<>>, i |-> 0,
     inflight |-> {}, issued |-> {}, settled |-> <<>>, allResults |-> <<>>,
     how |-> <<>>]

(* A slice one element wider than BATCH_SIZE. *)
InjBatchPositionsWider(j) ==
    {p \in 1..Len(j.schemasToInject) : p > j.i /\ p <= j.i + BATCH_SIZE + 1}

(* The positions of schemasToInject.slice(i, i + BATCH_SIZE). *)
InjBatchPositions(j) ==
    {p \in 1..Len(j.schemasToInject) : p > j.i /\ p <= j.i + BATCH_SIZE}

(* A .then handler that drops the error of the outcome. *)
InjectionResolvedWithoutError(urlInfo, result) ==
    [urlInfo EXCEPT !.injectionStatus = IF result.success THEN "success" ELSE "failed"]

(* The .then handler: the record with the outcome injectSchema resolved to. *)
InjectionResolved(urlInfo, result) ==
    [urlInfo EXCEPT !.injectionStatus = IF result.success THEN "success" ELSE "failed",
                    !.injectionError = result.error]

(* The .catch handler: e is [isError, message], what the promise rejected with. *)
InjectionRejected(urlInfo, e) ==
    [urlInfo EXCEPT !.injectionStatus = "failed",
                    !.injectionError = IF e.isError THEN e.message ELSE "Unknown error"]

(* The head of the batch loop: issue the injectSchema calls of the next batch. *)
InjLoopHead(j) ==
    IF j.i < Len(j.schemasToInject)
    THEN [j EXCEPT !.pc = "await_batch",
                   !.inflight = InjBatchPositions(j),
                   !.issued = j.issued \cup InjBatchPositions(j),
                   !.settled = <<>>]
    ELSE [j EXCEPT !.pc = "returned"]

performInjection(schemasToInject, caller) ==
    InjLoopHead([InjIdle EXCEPT !.caller = caller, !.schemasToInject = schemasToInject])

(* The records handed to injectSchema when the head of the loop issues a batch. *)
IssuedRecords(j) == {j.schemasToInject[p] : p \in j.inflight}

(* One injectSchema call of the batch in flight resolves; how records, per
   position, whether the promise resolved or rejected. *)
InjectSchemaSettle ==
    /\ inj.pc = "await_batch"
    /\ \E p \in inj.inflight, net \in WpNets :
        LET urlInfo == inj.schemasToInject[p]
            rec == InjectionResolved(urlInfo, injectSchema(WpScenario(urlInfo.url, net)))
        IN inj' = [inj EXCEPT !.inflight = @ \ {p}, !.settled = @ @@ (p :> rec),
                              !.how = @ @@ (p :> "resolved")]
    /\ UNCHANGED <<appVars, task, an, gens, hist>>

(* One promise of the batch in flight rejects.  injectSchema as written
   catches every error and never rejects; this is the .catch handler of
   performInjection exercised on its own, with any promise in place of
   injectSchema's, and it is taken only when performInjection is called
   directly. *)
InjectSchemaReject ==
    /\ inj.pc = "await_batch"
    /\ inj.caller = "direct"
    /\ \E p \in inj.inflight,
          e \in {[isError |-> TRUE, message |-> "Error message"],
                 [isError |-> FALSE, message |-> Undef]} :
        LET urlInfo == inj.schemasToInject[p]
            rec == InjectionRejected(urlInfo, e)
        IN inj' = [inj EXCEPT !.inflight = @ \ {p}, !.settled = @ @@ (p :> rec),
                              !.how = @ @@ (p :> "rejected")]
    /\ UNCHANGED <<appVars, task, an, gens, hist>>

(* The continuation of await Promise.all(promises) in the injection loop. *)
InjectionBatchResume ==
    /\ inj.pc = "await_batch"
    /\ PromiseAllSettled(inj.inflight)
    /\ LET next == InjLoopHead([inj EXCEPT
                        !.allResults = @ \o PromiseAll(InjBatchPositions(inj), inj.settled),
                        !.i = @ + BATCH_SIZE])
       IN /\ inj' = next
          /\ hist' = [hist EXCEPT !.injectCalls = @ \cup IssuedRecords(next)]
    /\ UNCHANGED <<appVars, task, an, gens>>

(***************************************************************************)
(* performGeneration (App).  gens holds the activations in flight, oldest  *)
(* first: handleGenerateSchema does not wait for an earlier one.           *)
(***************************************************************************)
(* What the AI may return for a page of type T: a knowledge graph whose
   entity of that type has every required property, or a bare object of
   that type with no property at all. *)
GraphSchema(T) ==
    [atType |-> NoType, props |-> <<>>,
     graph |-> <<[atType |-> TypeString(T),
                  props |-> [q \in SeqToSet(validationRules[T].required) |-> "ok"]]>>]

BareSchema(T) == [atType |-> TypeString(T), props |-> <<>>, graph |-> <<>>]

GenerateAnswers(T) == {GraphSchema(T), BareSchema(T)}

(* currentList.map(u => u.url === url ? {...u, ...} : u); updated[k] is the
   spread-and-override of list[k]. *)
MapByUrl(list, url, updated) ==
    [k \in 1..Len(list) |-> IF list[k].url = url THEN updated[k] ELSE list[k]]

(* A try branch that stores the schema without validating it. *)
GenerationSucceededUnvalidated(u, schema, selectedSchemaType) ==
    [u EXCEPT !.schema = schema, !.generationStatus = "Success"]

(* The try branch of the loop body: the schema came back. *)
GenerationSucceeded(u, schema, selectedSchemaType) ==
    LET validationResult == validateSchemaClientSide(schema, selectedSchemaType) IN
    [u EXCEPT !.schema = schema,
              !.generationStatus = "Success",
              !.validationStatus = IF validationResult.isValid THEN "Valid" ELSE "Invalid",
              !.validationErrors = validationResult.errors,
              !.validationWarnings = validationResult.warnings]

(* A catch branch that marks the whole list as failed. *)
GenerationFailedForAll(list, url, errorMessage) ==
    [k \in 1..Len(list) |->
        [list[k] EXCEPT !.generationStatus = "Failed", !.generationError = errorMessage]]

(* The catch branch of the loop body. *)
GenerationFailed(list, url, errorMessage) ==
    MapByUrl(list, url,
        [k \in 1..Len(list) |->
            [list[k] EXCEPT !.generationStatus = "Failed",
                            !.generationError = errorMessage]])

(* Which facade call the loop body makes for a record. *)
GenerationCall(urlInfo) ==
    IF urlInfo.schemaStatus = "AuditRecommended"
    THEN "auditAndUpgradeSchema" ELSE "generateSchema"

(* auditAndUpgradeSchemaWithOpenAI builds its prompt before its try block,
   with JSON.stringify(urlInfo.existingSchema, null, 2).substring(0, 2000):
   on a record without existingSchema that is a TypeError, the promise
   rejects and no request is made.  The Gemini function tests the field
   first. *)
ThrowsBeforeRequest(call, urlInfo, config) ==
    /\ call = "auditAndUpgradeSchema"
    /\ config.provider # "Google Gemini"
    /\ urlInfo.existingSchema = Undef

(* The message of the Error the call throws. *)
GenerationErrorMessage(call, urlInfo, config) ==
    IF ThrowsBeforeRequest(call, urlInfo, config)
    THEN "Cannot read properties of undefined (reading 'substring')"
    ELSE IF call = "auditAndUpgradeSchema" THEN "AI schema audit failed."
    ELSE "AI generation failed: API request failed"

(* A new activation: the loop is at its first await, or already over when
   there is nothing to generate.  stale marks an activation started before
   the latest handleConnect; failed records the positions whose call threw.
   arrays tells, for the records handleGenerateSchema hands over, which
   analysis made the opportunities array each of them holds: 0 for the
   analysis that made the list on the screen, n for the n-th before it among
   those whose arrays are still held somewhere. *)
performGeneration(urlsToGenerate, config, caller) ==
    [caller |-> caller, stale |-> FALSE, urlsToGenerate |-> urlsToGenerate,
     config |-> config, arrays |-> [u \in {} |-> 0],
     idx |-> 0, currentList |-> urlsToGenerate, failed |-> {},
     pc |-> IF urlsToGenerate = <<>> THEN "returned" ELSE "await_ai"]

(* The activation after its call in flight settled: the call threw (threw,
   or before any request), or returned schema. *)
GenerationStep(run, threw, schema) ==
    LET urlInfo == run.urlsToGenerate[run.idx + 1]
        caught == threw \/ ThrowsBeforeRequest(GenerationCall(urlInfo), urlInfo,
                                               run.config)
        list == IF caught
                THEN GenerationFailed(run.currentList, urlInfo.url,
                        GenerationErrorMessage(GenerationCall(urlInfo), urlInfo,
                                               run.config))
                ELSE MapByUrl(run.currentList, urlInfo.url,
                        [k \in 1..Len(run.currentList) |->
                            GenerationSucceeded(run.currentList[k], schema,
                                                urlInfo.selectedSchemaType)])
    IN [run EXCEPT !.currentList = list,
                   !.idx = @ + 1,
                   !.failed = IF caught THEN @ \cup {run.idx + 1} ELSE @,
                   !.pc = IF run.idx + 1 < Len(run.urlsToGenerate)
                          THEN "await_ai" ELSE "returned"]

RemoveAt(s, n) == [k \in 1..(Len(s) - 1) |-> IF k < n THEN s[k] ELSE s[k + 1]]

(* The dependency of the effect of a UrlListItem is the opportunities array
   of its record, compared by identity.  Arrays are told apart by the
   analysis that made them; only whether two of them are the same matters,
   so the earlier analyses whose arrays are still held by an activation
   (runs) or by a record of the list (listArrays) are numbered 1, 2, ...
   from the latest, without gaps. *)
SameArrays(runs, listArrays) ==
    LET used == UNION ({{runs[r].arrays[u] : u \in DOMAIN runs[r].arrays} :
                            r \in 1..Len(runs)}
                       \cup {{listArrays[u] : u \in DOMAIN listArrays}}) \ {0}
        rank(i) == IF i = 0 THEN 0 ELSE Cardinality({j \in used : j <= i})
    IN [gens |-> [r \in 1..Len(runs) |->
                    [runs[r] EXCEPT !.arrays =
                        [u \in DOMAIN runs[r].arrays |-> rank(runs[r].arrays[u])]]],
        arrays |-> [u \in DOMAIN listArrays |-> rank(listArrays[u])]]

(***************************************************************************)
(* Initial values of the App state (the useState defaults).                *)
(***************************************************************************)
TaskIdle == [pc |-> "idle", handler |-> "none", isAutoPilot |-> FALSE]

(* hist, for the current run (since the latest handleConnect): the records
   handed to injectSchema, the URLs handed to performAnalysis, the kinds of
   pipeline calls made, whether handleConnect failed in its setup, and how
   many times the user pressed Generate.  arrays names the pages whose
   record in urlList holds the opportunities array of an earlier analysis,
   put there by the merge of an activation started before Start Over, with
   the number of that analysis (see SameArrays). *)
HistInit == [injectCalls |-> {}, entered |-> {}, calls |-> {},
             setupFailed |-> FALSE, generations |-> 0,
             arrays |-> [u \in {} |-> 0]]

AppInit ==
    /\ step = "credentials"
    /\ isLoading = FALSE
    /\ error = Null
    /\ wpCreds = Null
    /\ aiConfig = NullObj
    /\ businessInfo = Null
    /\ sitemapGroups = <<>>
    /\ categorizedSitemaps = [primary |-> <<>>, secondary |-> <<>>]
    /\ selectedSitemaps = {}
    /\ urlList = <<>>
    /\ selectedUrls = {}
    /\ generationProgress = [current |-> 0, total |-> 0]
    /\ injectionResults = <<>>

(***************************************************************************)
(* The site the wizard is run against: two sitemaps that share a page.     *)
(***************************************************************************)
SiteGroups ==
    <<[sitemapUrl |-> "post-sitemap.xml", urls |-> <<1, 3>>],
      [sitemapUrl |-> "page-sitemap.xml", urls |-> <<3>>]>>

RECURSIVE FlatMapUrls(_)
(* groups.flatMap(g => g.urls) *)
FlatMapUrls(groups) ==
    IF groups = <<>> THEN <<>> ELSE Head(groups).urls \o FlatMapUrls(Tail(groups))

RECURSIVE Dedup(_)
(* [...new Set(urls)]: the first occurrence of each URL, in order. *)
Dedup(urls) ==
    IF urls = <<>> THEN <<>>
    ELSE LET front == Dedup(SubSeq(urls, 1, Len(urls) - 1))
             last == urls[Len(urls)]
         IN IF last \in SeqToSet(front) THEN front ELSE Append(front, last)

RECURSIVE FilterRecords(_, _)
(* list.filter(keep), keep given as the set of positions kept. *)
FilterRecords(list, keep) ==
    IF list = <<>> THEN <<>>
    ELSE LET front == FilterRecords(SubSeq(list, 1, Len(list) - 1), keep)
         IN IF Len(list) \in keep THEN Append(front, list[Len(list)]) ELSE front

(* A test that also lets through the pages that have a schema already. *)
ProcessableOrFound(u) == u.schemaStatus \in {"NotFound", "AuditRecommended", "Found"}

(* u.schemaStatus === NotFound || u.schemaStatus === AuditRecommended *)
Processable(u) == u.schemaStatus \in {"NotFound", "AuditRecommended"}

(* A filter that keeps every record that has a schema. *)
AnyWithSchema(u) == u.schema # UndefObj /\ u.schema # NullObj

(* u.validationStatus === Valid && u.schema *)
ValidWithSchema(u) ==
    u.validationStatus = "Valid" /\ u.schema # UndefObj /\ u.schema # NullObj

(* What the claims call a validated record. *)
ValidatedRecord(r) ==
    /\ r.validationStatus = "Valid"
    /\ r.schema # UndefObj
    /\ r.schema # NullObj
    /\ "atType" \in DOMAIN r.schema

(***************************************************************************)
(* handleConnect, runManualCrawl, runAutoPilot (App)                       *)
(***************************************************************************)
(* A validation that accepts every outcome. *)
validateWpCredentialsAlways(outcome) == TRUE

(* validateWpCredentials on the outcome of its request: response.ok, and
   false when the request itself failed. *)
validateWpCredentials(outcome) == outcome = "ok"

(* The catch block of handleConnect. *)
ConnectFailed(errorMessage) ==
    /\ error' = errorMessage
    /\ isLoading' = FALSE
    /\ task' = TaskIdle

(* Submitting the credentials form; the button is disabled while loading. *)
handleConnect ==
    /\ step = "credentials"
    /\ ~isLoading
    /\ \E isAutoPilot \in BOOLEAN :
        task' = [pc |-> "validate", handler |-> "handleConnect",
                 isAutoPilot |-> isAutoPilot]
    /\ isLoading' = TRUE
    /\ error' = Null
    /\ gens' = [k \in 1..Len(gens) |-> [gens[k] EXCEPT !.stale = TRUE]]
    /\ hist' = [HistInit EXCEPT !.arrays = hist.arrays]
    /\ UNCHANGED <<step, wpCreds, aiConfig, businessInfo, sitemapGroups,
                   categorizedSitemaps, selectedSitemaps, urlList, selectedUrls,
                   generationProgress, injectionResults, an, inj>>

(* Promise.all of the two validations settles.  hist.setupFailed records
   that WordPress refused the credentials or could not be reached, or that
   the AI key was refused. *)
ValidateSettle ==
    /\ task.pc = "validate"
    /\ \E wp \in {"ok", "unauthorized", "throw"}, aiValid \in BOOLEAN :
        LET wpValid == validateWpCredentials(wp) IN
        /\ hist' = [hist EXCEPT !.setupFailed = (wp # "ok" \/ ~aiValid)]
        /\ IF ~wpValid THEN
              /\ ConnectFailed("Invalid WordPress credentials or URL.")
              /\ UNCHANGED <<wpCreds, aiConfig, businessInfo>>
           ELSE IF ~aiValid THEN
              /\ ConnectFailed("Invalid AI Provider API Key.")
              /\ UNCHANGED <<wpCreds, aiConfig, businessInfo>>
           ELSE
              /\ wpCreds' = "creds"
              /\ aiConfig' = FormAiConfig
              /\ businessInfo' = "bInfo"
              /\ task' = [task EXCEPT !.pc = "crawl"]
              /\ UNCHANGED <<error, isLoading>>
    /\ UNCHANGED <<step, sitemapGroups, categorizedSitemaps, selectedSitemaps,
                   urlList, selectedUrls, generationProgress, injectionResults,
                   an, gens, inj>>

(* fetchAndParseSitemap settles, in runManualCrawl or in runAutoPilot.
   hist.setupFailed records that it threw or found no group. *)
CrawlSettle ==
    /\ task.pc = "crawl"
    /\ \E outcome \in {"throw", "empty", "groups"} :
        LET groups == IF outcome = "groups" THEN SiteGroups ELSE <<>>
            allUrls == Dedup(FlatMapUrls(groups))
            analysing == outcome # "throw" /\ Len(groups) # 0 /\ task.isAutoPilot
        IN
        /\ hist' = [hist EXCEPT
              !.setupFailed = outcome \in {"throw", "empty"},
              !.entered = IF analysing THEN SeqToSet(allUrls) ELSE @,
              !.calls = IF analysing THEN @ \cup {"analysis"} ELSE @]
        /\ IF outcome = "throw" THEN
              /\ ConnectFailed("Could not fetch or parse sitemap.")
              /\ UNCHANGED <<sitemapGroups, an>>
           ELSE IF Len(groups) = 0 THEN
              /\ ConnectFailed("No sitemaps or URLs found.")
              /\ UNCHANGED <<sitemapGroups, an>>
           ELSE IF task.isAutoPilot THEN
              /\ an' = performAnalysis(allUrls, "runAutoPilot")
              /\ task' = [task EXCEPT !.pc = "analysis"]
              /\ UNCHANGED <<sitemapGroups, error, isLoading>>
           ELSE
              /\ sitemapGroups' = groups
              /\ task' = [task EXCEPT !.pc = "categorize"]
              /\ UNCHANGED <<an, error, isLoading>>
    /\ UNCHANGED <<step, wpCreds, aiConfig, businessInfo, categorizedSitemaps,
                   selectedSitemaps, urlList, selectedUrls, generationProgress,
                   injectionResults, gens, inj>>

(* What the AI may answer to the categorize request of the site. *)
CategorizeAnswers ==
    {[primary |-> {"post-sitemap.xml", "page-sitemap.xml"}, secondary |-> {}],
     [primary |-> {"post-sitemap.xml"}, secondary |-> {"page-sitemap.xml"}]}

(* The catch block of the provider function, taken when the request fails:
   the names that match /post|page|product/i are primary, the others
   secondary.  Of the sitemap names used here, the two of the site match. *)
categorizeSitemapsFallback(sitemapUrls) ==
    LET matching == sitemapUrls \cap {"post-sitemap.xml", "page-sitemap.xml"}
    IN [primary |-> matching, secondary |-> sitemapUrls \ matching]

(* categorizeSitemaps (aiService): the groups the answer names. *)
categorizeSitemaps(groups, categorizedUrls) ==
    [primary |-> FilterRecords(groups,
        {k \in 1..Len(groups) : groups[k].sitemapUrl \in categorizedUrls.primary}),
     secondary |-> FilterRecords(groups,
        {k \in 1..Len(groups) : groups[k].sitemapUrl \in categorizedUrls.secondary})]

(* categorizeSitemaps settles in runManualCrawl: it throws when the parsed
   answer has no primary or secondary array; otherwise, with the AI's answer
   or, the request having failed, with the fallback, the wizard moves to the
   sitemap selection, whose mount effect pre-selects the primary groups. *)
CategorizeSettle ==
    /\ task.pc = "categorize"
    /\ \/ /\ ConnectFailed("Cannot read properties of undefined")
          /\ UNCHANGED <<step, categorizedSitemaps, selectedSitemaps, hist>>
       \/ \E answer \in CategorizeAnswers \cup
                {categorizeSitemapsFallback(
                    {sitemapGroups[k].sitemapUrl : k \in 1..Len(sitemapGroups)})} :
            LET categorized == categorizeSitemaps(sitemapGroups, answer) IN
            /\ categorizedSitemaps' = categorized
            /\ selectedSitemaps' =
                  {categorized.primary[k].sitemapUrl : k \in 1..Len(categorized.primary)}
            /\ step' = "sitemap-selection"
            /\ isLoading' = FALSE
            /\ task' = TaskIdle
            /\ UNCHANGED <<error, hist>>
    /\ UNCHANGED <<wpCreds, aiConfig, businessInfo, sitemapGroups, urlList,
                   selectedUrls, generationProgress, injectionResults,
                   an, gens, inj>>

(***************************************************************************)
(* StepSitemapSelection and handleStartAnalysis                            *)
(***************************************************************************)
AllGroups == categorizedSitemaps.primary \o categorizedSitemaps.secondary

AtSitemapSelection == step = "sitemap-selection" /\ ~isLoading

toggleSitemap ==
    /\ AtSitemapSelection
    /\ \E k \in 1..Len(AllGroups) :
        LET sitemapUrl == AllGroups[k].sitemapUrl IN
        selectedSitemaps' = IF sitemapUrl \in selectedSitemaps
                            THEN selectedSitemaps \ {sitemapUrl}
                            ELSE selectedSitemaps \cup {sitemapUrl}
    /\ UNCHANGED <<step, isLoading, error, wpCreds, aiConfig, businessInfo,
                   sitemapGroups, categorizedSitemaps, urlList, selectedUrls,
                   generationProgress, injectionResults, task, an, gens, inj, hist>>

(* The "Select All" and "Deselect All" buttons of the sitemap selection. *)
selectAllSitemaps ==
    /\ AtSitemapSelection
    /\ \E all \in BOOLEAN :
        selectedSitemaps' =
            IF all THEN {AllGroups[k].sitemapUrl : k \in 1..Len(AllGroups)} ELSE {}
    /\ UNCHANGED <<step, isLoading, error, wpCreds, aiConfig, businessInfo,
                   sitemapGroups, categorizedSitemaps, urlList, selectedUrls,
                   generationProgress, injectionResults, task, an, gens, inj, hist>>

(* handleSubmit of the sitemap selection: the URLs of the selected groups. *)
UrlsOfSelectedSitemaps ==
    Dedup(FlatMapUrls(FilterRecords(AllGroups,
        {k \in 1..Len(AllGroups) : AllGroups[k].sitemapUrl \in selectedSitemaps})))

(* The Analyze button (disabled when no URL is selected) calls
   handleStartAnalysis, which runs up to its await of performAnalysis. *)
handleStartAnalysis ==
    /\ AtSitemapSelection
    /\ UrlsOfSelectedSitemaps # <<>>
    /\ wpCreds # Null /\ aiConfig # NullObj
    /\ isLoading' = TRUE
    /\ error' = Null
    /\ an' = performAnalysis(UrlsOfSelectedSitemaps, "handleStartAnalysis")
    /\ task' = [pc |-> "analysis", handler |-> "handleStartAnalysis",
                isAutoPilot |-> FALSE]
    /\ hist' = [hist EXCEPT !.entered = SeqToSet(UrlsOfSelectedSitemaps),
                            !.calls = @ \cup {"analysis"}]
    /\ UNCHANGED <<step, wpCreds, aiConfig, businessInfo, sitemapGroups,
                   categorizedSitemaps, selectedSitemaps, urlList, selectedUrls,
                   generationProgress, injectionResults, gens, inj>>

(* The effect of each UrlListItem when the URL list is mounted: a page with
   a detected opportunity gets the first one as its selected type. *)
UrlListItemEffect(list) ==
    [k \in 1..Len(list) |->
        IF list[k].opportunities # <<>>
           /\ list[k].selectedSchemaType # list[k].opportunities[1]
        THEN [list[k] EXCEPT !.selectedSchemaType = list[k].opportunities[1]]
        ELSE list[k]]

(* handleStartAnalysis after its await: the try, catch and finally blocks.
   The step changes either way, which unmounts the sitemap selection and
   discards its selection.  The new list holds arrays of its own, so the
   arrays held by the activations in flight are one analysis older. *)
handleStartAnalysisResume ==
    /\ task.pc = "analysis" /\ task.handler = "handleStartAnalysis"
    /\ an.pc \in {"returned", "thrown"}
    /\ IF an.pc = "returned"
       THEN /\ urlList' = UrlListItemEffect(an.result)
            /\ step' = "url-list"
            /\ gens' = SameArrays(
                    [r \in 1..Len(gens) |->
                        [gens[r] EXCEPT !.arrays =
                            [u \in DOMAIN gens[r].arrays |-> gens[r].arrays[u] + 1]]],
                    HistInit.arrays).gens
            /\ hist' = [hist EXCEPT !.arrays = HistInit.arrays]
            /\ UNCHANGED error
       ELSE /\ error' = an.errorMessage
            /\ step' = "credentials"
            /\ UNCHANGED <<urlList, gens, hist>>
    /\ isLoading' = FALSE
    /\ selectedSitemaps' = {}
    /\ task' = TaskIdle
    /\ an' = AnIdle
    /\ UNCHANGED <<wpCreds, aiConfig, businessInfo, sitemapGroups,
                   categorizedSitemaps, selectedUrls,
                   generationProgress, injectionResults, inj>>

(* handleRestart: the Back button of the sitemap selection and the restart
   button of the last screen. *)
handleRestart ==
    /\ step \in {"sitemap-selection", "complete"}
    /\ ~isLoading
    /\ step' = "credentials"
    /\ isLoading' = FALSE
    /\ error' = Null
    /\ wpCreds' = Null
    /\ aiConfig' = NullObj
    /\ businessInfo' = Null
    /\ sitemapGroups' = <<>>
    /\ categorizedSitemaps' = [primary |-> <<>>, secondary |-> <<>>]
    /\ selectedSitemaps' = {}
    /\ urlList' = <<>>
    /\ selectedUrls' = {}
    /\ generationProgress' = [current |-> 0, total |-> 0]
    /\ injectionResults' = <<>>
    /\ hist' = HistInit
    /\ UNCHANGED <<task, an, gens, inj>>

(***************************************************************************)
(* Step2UrlList                                                            *)
(***************************************************************************)
AtUrlList == step = "url-list" /\ ~isLoading

toggleUrl ==
    /\ AtUrlList
    /\ \E k \in 1..Len(urlList) :
        /\ Processable(urlList[k])
        /\ selectedUrls' = IF urlList[k].url \in selectedUrls
                           THEN selectedUrls \ {urlList[k].url}
                           ELSE selectedUrls \cup {urlList[k].url}
    /\ UNCHANGED <<step, isLoading, error, wpCreds, aiConfig, businessInfo,
                   sitemapGroups, categorizedSitemaps, selectedSitemaps, urlList,
                   generationProgress, injectionResults, task, an, gens, inj, hist>>

urlsToProcess == {urlList[k].url : k \in {j \in 1..Len(urlList) : Processable(urlList[j])}}

selectAll ==
    /\ AtUrlList
    /\ urlsToProcess # {}
    /\ selectedUrls' = urlsToProcess
    /\ UNCHANGED <<step, isLoading, error, wpCreds, aiConfig, businessInfo,
                   sitemapGroups, categorizedSitemaps, selectedSitemaps, urlList,
                   generationProgress, injectionResults, task, an, gens, inj, hist>>

deselectAll ==
    /\ AtUrlList
    /\ selectedUrls # {}
    /\ selectedUrls' = {}
    /\ UNCHANGED <<step, isLoading, error, wpCreds, aiConfig, businessInfo,
                   sitemapGroups, categorizedSitemaps, selectedSitemaps, urlList,
                   generationProgress, injectionResults, task, an, gens, inj, hist>>

(* The types the user picks in the drop-down of a selected page. *)
UserTypes == {"Recipe"}

onSchemaTypeChange ==
    /\ AtUrlList
    /\ \E k \in 1..Len(urlList), type \in UserTypes :
        /\ urlList[k].url \in selectedUrls
        /\ Processable(urlList[k])
        /\ urlList' = [urlList EXCEPT ![k].selectedSchemaType = type]
    /\ UNCHANGED <<step, isLoading, error, wpCreds, aiConfig, businessInfo,
                   sitemapGroups, categorizedSitemaps, selectedSitemaps,
                   selectedUrls, generationProgress, injectionResults,
                   task, an, gens, inj, hist>>

(***************************************************************************)
(* Generation: handleGenerateSchema, runAutoPilot and the settling of the  *)
(* generateSchema / auditAndUpgradeSchema call of an activation.           *)
(***************************************************************************)
SelectedPositions(list) == {k \in 1..Len(list) : list[k].url \in selectedUrls}

(* The Generate button of the URL list (disabled when nothing is selected):
   handleGenerateSchema up to its await.  performGeneration gets the records
   of the list as rendered, not the ones marked Generating. *)
handleGenerateSchema ==
    /\ AtUrlList
    /\ selectedUrls # {}
    /\ aiConfig # NullObj /\ businessInfo # Null
    /\ Len(gens) < MaxGenRuns /\ hist.generations < MaxGenRuns
    /\ LET urlsToGenerate == FilterRecords(urlList, SelectedPositions(urlList)) IN
        /\ generationProgress' = [current |-> 0, total |-> Len(urlsToGenerate)]
        /\ gens' = Append(gens,
                [performGeneration(urlsToGenerate, aiConfig, "handleGenerateSchema")
                    EXCEPT !.arrays =
                        [u \in {urlsToGenerate[k].url : k \in 1..Len(urlsToGenerate)} |->
                            IF u \in DOMAIN hist.arrays THEN hist.arrays[u] ELSE 0]])
    /\ step' = "review"
    /\ urlList' = [k \in 1..Len(urlList) |->
                     IF urlList[k].url \in selectedUrls
                     THEN [urlList[k] EXCEPT !.generationStatus = "Generating"]
                     ELSE urlList[k]]
    /\ hist' = [hist EXCEPT !.calls = @ \cup {"generation"},
                            !.generations = @ + 1]
    /\ UNCHANGED <<isLoading, error, wpCreds, aiConfig, businessInfo, sitemapGroups,
                   categorizedSitemaps, selectedSitemaps, selectedUrls,
                   injectionResults, task, an, inj>>

(* prev.map(u => finalGeneratedList.find(fu => fu.url === u.url) || u) *)
MergeGenerated(prev, finalGeneratedList) ==
    [k \in 1..Len(prev) |->
        LET hits == {j \in 1..Len(finalGeneratedList) :
                        finalGeneratedList[j].url = prev[k].url}
        IN IF hits = {} THEN prev[k]
           ELSE finalGeneratedList[CHOOSE j \in hits : \A i \in hits : j <= i]]

(* runAutoPilot after its await of performAnalysis; a throw of
   performAnalysis goes to the catch block of handleConnect. *)
runAutoPilotAnalysed ==
    /\ task.pc = "analysis" /\ task.handler = "handleConnect"
    /\ an.pc \in {"returned", "thrown"}
    /\ an' = AnIdle
    /\ IF an.pc = "thrown" THEN
            /\ ConnectFailed(an.errorMessage)
            /\ UNCHANGED <<step, injectionResults, generationProgress, gens, hist>>
       ELSE
       LET analyzedUrls == an.result
           urlsToGenerate == FilterRecords(analyzedUrls,
               {k \in 1..Len(analyzedUrls) : Processable(analyzedUrls[k])})
       IN IF urlsToGenerate = <<>> THEN
            /\ injectionResults' = <<>>
            /\ step' = "complete"
            /\ isLoading' = FALSE
            /\ task' = TaskIdle
            /\ UNCHANGED <<error, generationProgress, gens, hist>>
          ELSE
            /\ gens' = Append(gens, performGeneration(urlsToGenerate, aiConfig,
                                                       "runAutoPilot"))
            /\ generationProgress' = [current |-> 0, total |-> Len(urlsToGenerate)]
            /\ task' = [task EXCEPT !.pc = "generation"]
            /\ hist' = [hist EXCEPT !.calls = @ \cup {"generation"}]
            /\ UNCHANGED <<step, injectionResults, isLoading, error>>
    /\ UNCHANGED <<wpCreds, aiConfig, businessInfo, sitemapGroups,
                   categorizedSitemaps, selectedSitemaps, urlList, selectedUrls, inj>>

(* What follows the return of performGeneration in its caller: the final
   setUrlList of handleGenerateSchema, or steps 6 and 7 of runAutoPilot up to
   the await of performInjection.  The merge of handleGenerateSchema puts the
   activation's records in the list; when the URL list is on the screen, the
   effect of the item of a record that came with another opportunities array
   than the one it replaced runs again. *)
GenerationReturned(run, r) ==
    IF run.caller = "handleGenerateSchema" THEN
        LET merged == MergeGenerated(urlList, run.currentList)
            held(u) == IF u \in DOMAIN hist.arrays THEN hist.arrays[u] ELSE 0
            brought(u) == IF u \in DOMAIN run.arrays THEN run.arrays[u] ELSE held(u)
            holding == {u \in {merged[k].url : k \in 1..Len(merged)} : brought(u) # 0}
            same == SameArrays(RemoveAt(gens, r), [u \in holding |-> brought(u)])
        IN /\ urlList' = [k \in 1..Len(merged) |->
                            IF step = "url-list"
                               /\ brought(merged[k].url) # held(merged[k].url)
                            THEN UrlListItemEffect(<<merged[k]>>)[1]
                            ELSE merged[k]]
           /\ gens' = same.gens
           /\ hist' = [hist EXCEPT !.arrays = same.arrays]
           /\ UNCHANGED <<step, isLoading, injectionResults, task, inj>>
    ELSE
    LET generatedUrlList == run.currentList
        validSchemas == FilterRecords(generatedUrlList,
            {k \in 1..Len(generatedUrlList) : ValidWithSchema(generatedUrlList[k])})
    IN /\ gens' = RemoveAt(gens, r)
       /\ UNCHANGED urlList
       /\ IF validSchemas = <<>> THEN
            /\ injectionResults' = generatedUrlList
            /\ step' = "complete"
            /\ isLoading' = FALSE
            /\ task' = TaskIdle
            /\ UNCHANGED <<inj, hist>>
          ELSE
            /\ inj' = performInjection(validSchemas, "runAutoPilot")
            /\ task' = [task EXCEPT !.pc = "injection"]
            /\ hist' = [hist EXCEPT
                  !.calls = @ \cup {"injection"},
                  !.injectCalls = @ \cup IssuedRecords(performInjection(validSchemas,
                                                                       "runAutoPilot"))]
            /\ UNCHANGED <<step, isLoading, injectionResults>>

(* The call in flight of one activation of performGeneration settles: the
   catch or the try branch, the finally block, then the next iteration or
   the return to the caller. *)
GenerateSettle ==
    \E r \in 1..Len(gens) :
        /\ gens[r].pc = "await_ai"
        /\ \E threw \in
                LET urlInfo == gens[r].urlsToGenerate[gens[r].idx + 1] IN
                IF ThrowsBeforeRequest(GenerationCall(urlInfo), urlInfo, gens[r].config)
                THEN {TRUE} ELSE BOOLEAN :
            \E schema \in IF threw THEN {NullObj}
                          ELSE GenerateAnswers(
                                 gens[r].urlsToGenerate[gens[r].idx + 1].selectedSchemaType) :
            LET run == GenerationStep(gens[r], threw, schema) IN
            /\ generationProgress' = [generationProgress EXCEPT !.current = @ + 1]
            /\ IF run.pc = "returned" /\ run.caller # "direct"
               THEN GenerationReturned(run, r)
               ELSE /\ gens' = [gens EXCEPT ![r] = run]
                    /\ UNCHANGED <<step, isLoading, urlList, injectionResults,
                                   task, inj, hist>>
        /\ UNCHANGED <<error, wpCreds, aiConfig, businessInfo, sitemapGroups,
                       categorizedSitemaps, selectedSitemaps, selectedUrls, an>>

(***************************************************************************)
(* Step3Review, handleUpdateSchema, handleInject                           *)
(***************************************************************************)
AtReview == step = "review" /\ ~isLoading

(* A Back button of the review screen that returns to the sitemap selection. *)
onBackToSitemaps ==
    /\ AtReview
    /\ step' = "sitemap-selection"
    /\ UNCHANGED <<isLoading, error, wpCreds, aiConfig, businessInfo, sitemapGroups,
                   categorizedSitemaps, selectedSitemaps, urlList, selectedUrls,
                   generationProgress, injectionResults, task, an, gens, inj, hist>>

(* onBack of the review screen; the URL list is mounted again. *)
onBack ==
    /\ AtReview
    /\ step' = "url-list"
    /\ urlList' = UrlListItemEffect(urlList)
    /\ UNCHANGED <<isLoading, error, wpCreds, aiConfig, businessInfo, sitemapGroups,
                   categorizedSitemaps, selectedSitemaps, selectedUrls,
                   generationProgress, injectionResults, task, an, gens, inj, hist>>

(* What the user may leave in the editor of a page of type T: nothing, or a
   complete graph. *)
EditedSchemas(T) == {NullObj, GraphSchema(T)}

(* An edit in the text area of a displayed page whose generation succeeded. *)
handleUpdateSchema ==
    /\ AtReview
    /\ \E k \in SelectedPositions(urlList) :
        /\ urlList[k].generationStatus = "Success"
        /\ \E schema \in EditedSchemas(urlList[k].selectedSchemaType) :
            LET validationResult ==
                    validateSchemaClientSide(schema, urlList[k].selectedSchemaType)
            IN urlList' = [urlList EXCEPT
                    ![k].schema = schema,
                    ![k].validationStatus =
                        IF validationResult.isValid THEN "Valid" ELSE "Invalid",
                    ![k].validationErrors = validationResult.errors,
                    ![k].validationWarnings = validationResult.warnings]
    /\ UNCHANGED <<step, isLoading, error, wpCreds, aiConfig, businessInfo,
                   sitemapGroups, categorizedSitemaps, selectedSitemaps,
                   selectedUrls, generationProgress, injectionResults,
                   task, an, gens, inj, hist>>

(* canInject of Step3Review. *)
canInject ==
    /\ generationProgress.current = generationProgress.total
    /\ \E k \in SelectedPositions(urlList) : urlList[k].validationStatus = "Valid"

(* The Inject button: handleInject up to its await of performInjection. *)
handleInject ==
    /\ AtReview
    /\ canInject
    /\ wpCreds # Null
    /\ LET schemasToInject == FilterRecords(urlList,
              {k \in SelectedPositions(urlList) : ValidWithSchema(urlList[k])})
       IN /\ inj' = performInjection(schemasToInject, "handleInject")
          /\ hist' = [hist EXCEPT
                !.calls = @ \cup {"injection"},
                !.injectCalls = @ \cup IssuedRecords(performInjection(schemasToInject,
                                                                     "handleInject"))]
    /\ isLoading' = TRUE
    /\ task' = [pc |-> "injection", handler |-> "handleInject", isAutoPilot |-> FALSE]
    /\ UNCHANGED <<step, error, wpCreds, aiConfig, businessInfo, sitemapGroups,
                   categorizedSitemaps, selectedSitemaps, urlList, selectedUrls,
                   generationProgress, injectionResults, an, gens>>

(* handleInject, or runAutoPilot, after its await of performInjection. *)
InjectionReturned ==
    /\ task.pc = "injection"
    /\ inj.pc = "returned"
    /\ injectionResults' = inj.allResults
    /\ step' = "complete"
    /\ isLoading' = FALSE
    /\ task' = TaskIdle
    /\ inj' = InjIdle
    /\ UNCHANGED <<error, wpCreds, aiConfig, businessInfo, sitemapGroups,
                   categorizedSitemaps, selectedSitemaps, urlList, selectedUrls,
                   generationProgress, an, gens, hist>>

(***************************************************************************)
(* Spec: the wizard, from the credentials screen, against SiteGroups.      *)
(***************************************************************************)
Init ==
    /\ AppInit
    /\ task = TaskIdle
    /\ an = AnIdle
    /\ gens = <<>>
    /\ inj = InjIdle
    /\ hist = HistInit

Next ==
    \/ handleConnect
    \/ ValidateSettle
    \/ CrawlSettle
    \/ CategorizeSettle
    \/ toggleSitemap
    \/ selectAllSitemaps
    \/ handleStartAnalysis
    \/ AnalyzeUrlSettle
    \/ AnalysisBatchResume
    \/ SuggestSettle
    \/ DetectOpportunitiesSettle
    \/ handleStartAnalysisResume
    \/ runAutoPilotAnalysed
    \/ handleRestart
    \/ toggleUrl
    \/ selectAll
    \/ deselectAll
    \/ onSchemaTypeChange
    \/ handleGenerateSchema
    \/ GenerateSettle
    \/ onBack
    \/ handleUpdateSchema
    \/ handleInject
    \/ InjectSchemaSettle
    \/ InjectionBatchResume
    \/ InjectionReturned

Spec == Init /\ [][Next]_vars

(* injectionResults[k] carries a status of its own. *)
ExplicitStatus(r) ==
    \/ r.injectionStatus \in {"success", "failed"}
    \/ r.generationStatus = "Failed"
    \/ r.validationStatus = "Invalid"
    \/ r.schemaStatus \in {"AnalysisFailed", "Found", "Cached"}

(* C2: at 'complete', every URL that entered analysis in this run has a
   record in injectionResults, with a status of its own. *)
C2_NothingDroppedFromReport ==
    step = "complete" =>
        \A u \in hist.entered :
            \E k \in 1..Len(injectionResults) :
                injectionResults[k].url = u /\ ExplicitStatus(injectionResults[k])

(* C3: every record handed to injectSchema has validationStatus Valid and a
   schema, and so has every record of the list performInjection works on. *)
C3_InjectOnlyValid ==
    /\ \A r \in hist.injectCalls : ValidatedRecord(r)
    /\ \A k \in 1..Len(inj.schemasToInject) : ValidatedRecord(inj.schemasToInject[k])

(* A manual run reached 'complete' with a schema written to WordPress, after
   a generation that gave an invalid schema for the page was repeated. *)
C3_Witness ==
    /\ step = "complete"
    /\ hist.injectCalls # {}
    /\ hist.generations = 2
    /\ \E k \in 1..Len(injectionResults) : injectionResults[k].injectionStatus = "success"

(* C4: once WordPress or the AI provider refused the credentials, or the
   sitemap could not be resolved or had no group, the wizard is at
   'credentials' with the error reported and no overlay, and this run made
   no analysis, generation or injection call. *)
C4_SetupFailureIsFatal ==
    hist.setupFailed =>
        /\ step = "credentials"
        /\ error # Null
        /\ ~isLoading
        /\ hist.calls = {}
        /\ an.pc = "idle"
        /\ inj.pc = "idle"
        /\ \A r \in 1..Len(gens) : gens[r].stale

(* A setup failure of a second run, while an activation of performGeneration
   started in the first run is still in flight. *)
C4_Witness ==
    /\ hist.setupFailed
    /\ error = "No sitemaps or URLs found."
    /\ gens # <<>>

(* C6: at most one generateSchema / auditAndUpgradeSchema call is in
   flight. *)
C6_OneGenerationCallInFlight ==
    Cardinality({r \in 1..Len(gens) : gens[r].pc = "await_ai"}) <= 1

(***************************************************************************)
(* SpecAnalysis: performAnalysis called on a list of distinct URLs (both   *)
(* callers pass [...new Set(urls)]), of any length up to MaxAnalysisUrls,  *)
(* in descending order of page number.                                     *)
(***************************************************************************)
InitAnalysis ==
    /\ AppInit
    /\ task = TaskIdle
    /\ \E urls \in {[k \in 1..n |-> MaxAnalysisUrls + 1 - k] : n \in 0..MaxAnalysisUrls} :
        an = performAnalysis(urls, "direct")
    /\ gens = <<>>
    /\ inj = InjIdle
    /\ hist = HistInit

SpecAnalysis ==
    InitAnalysis
    /\ [][AnalyzeUrlSettle \/ AnalysisBatchResume \/ SuggestSettle
           \/ DetectOpportunitiesSettle]_vars

(***************************************************************************)
(* Properties of performAnalysis, under SpecAnalysis.                      *)
(***************************************************************************)
BatchLoopOver == an.pc \in {"await_suggest", "await_opportunity", "returned", "thrown"}

FailedUrls == {an.urlsToAnalyze[p] : p \in an.fetchFailed}

FailureRecorded(r) ==
    IF r.url \in FailedUrls
    THEN /\ r.schemaStatus = "AnalysisFailed"
         /\ r.analysisError \notin {Undef, Null, ""}
         /\ r.content = Undef
    ELSE r.schemaStatus \in SchemaStatus \ {"AnalysisFailed"}

(* C1: the batch loop isolates page-fetch failures.  Every settled call gave
   a record, never an exception: a failed fetch (no response, or a non-OK
   status) gave an AnalysisFailed record with analysisError and no content,
   any other fetch a record with another status; once the loop is over,
   analysisResults has exactly one record per input URL; and the only throw
   of performAnalysis comes after the loop. *)
C1_AnalysisIsolatesFailures ==
    /\ \A p \in DOMAIN an.settled : FailureRecorded(an.settled[p])
    /\ \A k \in 1..Len(an.analysisResults) : FailureRecorded(an.analysisResults[k])
    /\ BatchLoopOver =>
        /\ Len(an.analysisResults) = Len(an.urlsToAnalyze)
        /\ \A k \in 1..Len(an.urlsToAnalyze) :
              Cardinality({j \in 1..Len(an.analysisResults) :
                  an.analysisResults[j].url = an.urlsToAnalyze[k]}) = 1
    /\ an.pc = "thrown" => an.errorMessage = "AI failed to suggest schema types."

(* Ten URLs, exactly one page fetch failed, the loop is over. *)
C1_Witness ==
    /\ BatchLoopOver
    /\ Len(an.urlsToAnalyze) = 10
    /\ Cardinality(an.fetchFailed) = 1
    /\ Cardinality({k \in 1..10 : an.analysisResults[k].schemaStatus # "AnalysisFailed"}) = 9

BatchOf10(p) == (p - 1) \div 10

(* C7: at most 10 analyzeUrl calls are in flight, and a call of a later
   batch of 10 is issued only when every call of the earlier batches has
   been issued and has settled. *)
C7_AnalysisBatchesOf10 ==
    /\ Cardinality(an.inflight) <= 10
    /\ \A p \in an.issued :
        \A q \in 1..Len(an.urlsToAnalyze) :
            BatchOf10(q) < BatchOf10(p) => q \in an.issued /\ q \notin an.inflight
    /\ \A p \in an.inflight, q \in an.inflight : BatchOf10(p) = BatchOf10(q)

(* The second batch is in flight after a first batch of ten settled. *)
C7_Witness ==
    /\ an.pc = "await_batch"
    /\ an.i = 10
    /\ an.inflight # {}
    /\ Len(an.analysisResults) = 10

(* C8: the list performAnalysis returns has, at each position, the record
   of the input URL at that position, whatever the order in which the
   fetches of a batch completed. *)
C8_AnalysisOrderIsInputOrder ==
    an.pc = "returned" =>
        /\ Len(an.result) = Len(an.urlsToAnalyze)
        /\ \A k \in 1..Len(an.urlsToAnalyze) : an.result[k].url = an.urlsToAnalyze[k]

(* A list of two batches was returned. *)
C8_Witness ==
    /\ an.pc = "returned"
    /\ Len(an.result) > 10
    /\ an.result[11].url = an.urlsToAnalyze[11]

(***************************************************************************)
(* SpecInjection: performInjection called on a list of records that went   *)
(* through analysis and generation and hold a valid schema, of any length  *)
(* up to MaxInjectRecords, in descending order of page number.             *)
(***************************************************************************)
ValidRecord(u) ==
    LET page == Fetch("ok", ServerResponse(1))
        analysed == FinalMap(<<analyzeUrl(u, page, page)>>, <<>>, <<>>)[1]
    IN GenerationSucceeded(analysed, GraphSchema("Article"), "Article")

InitInjection ==
    /\ AppInit
    /\ task = TaskIdle
    /\ an = AnIdle
    /\ gens = <<>>
    /\ \E records \in {[k \in 1..n |-> ValidRecord(MaxInjectRecords + 1 - k)] :
                            n \in 0..MaxInjectRecords} :
        inj = performInjection(records, "direct")
    /\ hist = [HistInit EXCEPT !.injectCalls = IssuedRecords(inj)]

SpecInjection ==
    InitInjection
    /\ [][InjectSchemaSettle \/ InjectSchemaReject \/ InjectionBatchResume]_vars

BatchOf5(p) == (p - 1) \div 5

(* C9: at most 5 injectSchema calls are in flight; a call of a later batch
   of 5 is issued only when every call of the earlier batches has been
   issued and has settled; and the list returned has one record per input
   record, in input order. *)
C9_InjectionBatchesOf5 ==
    /\ Cardinality(inj.inflight) <= 5
    /\ \A p \in inj.issued :
        \A q \in 1..Len(inj.schemasToInject) :
            BatchOf5(q) < BatchOf5(p) => q \in inj.issued /\ q \notin inj.inflight
    /\ \A p \in inj.inflight, q \in inj.inflight : BatchOf5(p) = BatchOf5(q)
    /\ inj.pc = "returned" =>
        /\ Len(inj.allResults) = Len(inj.schemasToInject)
        /\ \A k \in 1..Len(inj.schemasToInject) :
              inj.allResults[k].url = inj.schemasToInject[k].url

(* The second batch is in flight after a first batch of five settled. *)
C9_Witness ==
    /\ inj.pc = "await_batch"
    /\ inj.i = 5
    /\ inj.inflight # {}
    /\ Len(inj.allResults) = 5

ExplicitOutcome(r) ==
    /\ r.injectionStatus \in {"success", "failed"}
    /\ r.injectionError # Undef <=> r.injectionStatus = "failed"

(* C10: every record performInjection produced, whether its promise
   resolved with success, resolved with failure or rejected, has
   injectionStatus success or failed, and has injectionError set exactly
   when it is failed; a rejection always gives failed. *)
C10_ExplicitInjectionOutcome ==
    /\ \A p \in DOMAIN inj.settled :
        /\ ExplicitOutcome(inj.settled[p])
        /\ inj.how[p] = "rejected" => inj.settled[p].injectionStatus = "failed"
    /\ \A k \in 1..Len(inj.allResults) : ExplicitOutcome(inj.allResults[k])
    /\ inj.pc = "returned" => Len(inj.allResults) = Len(inj.schemasToInject)

(* A list was returned in which one promise resolved with success, one
   resolved with failure and one rejected. *)
C10_Witness ==
    /\ inj.pc = "returned"
    /\ \E a, b, c \in 1..Len(inj.allResults) :
        /\ inj.how[a] = "resolved" /\ inj.allResults[a].injectionStatus = "success"
        /\ inj.how[b] = "resolved" /\ inj.allResults[b].injectionStatus = "failed"
        /\ inj.how[c] = "rejected" /\ inj.allResults[c].injectionStatus = "failed"

(***************************************************************************)
(* SpecGeneration: performGeneration called on a list of analysed records  *)
(* of distinct pages, of any length up to MaxGenUrls, each to be generated *)
(* or audited, with either of two selected types.                          *)
(***************************************************************************)
AnalysedRecord(u, schemaStatus, type) ==
    LET page == Fetch("ok", ServerResponse(1))
        analysed == FinalMap(<<analyzeUrl(u, page, page)>>, <<>>, <<>>)[1]
    IN [analysed EXCEPT !.schemaStatus = schemaStatus, !.selectedSchemaType = type]

InitGeneration ==
    /\ step = "credentials"
    /\ isLoading = FALSE
    /\ error = Null
    /\ wpCreds = "creds"
    /\ aiConfig \in {[provider |-> provider] : provider \in AiProvider}
    /\ businessInfo = "bInfo"
    /\ sitemapGroups = <<>>
    /\ categorizedSitemaps = [primary |-> <<>>, secondary |-> <<>>]
    /\ selectedSitemaps = {}
    /\ urlList = <<>>
    /\ selectedUrls = {}
    /\ injectionResults = <<>>
    /\ task = TaskIdle
    /\ an = AnIdle
    /\ inj = InjIdle
    /\ hist = HistInit
    /\ \E urlsToGenerate \in
            {[k \in 1..n |-> AnalysedRecord(n + 1 - k, choice[k][1], choice[k][2])] :
                <<n, choice>> \in
                    UNION {{n} \X [1..n -> {"NotFound", "AuditRecommended"}
                                            \X {"Article", "Product"}] :
                           n \in 0..MaxGenUrls}} :
        /\ gens = <<performGeneration(urlsToGenerate, aiConfig, "direct")>>
        /\ generationProgress = [current |-> 0, total |-> Len(urlsToGenerate)]

SpecGeneration == InitGeneration /\ [][GenerateSettle]_vars

(* C5: in performGeneration, the record of a URL whose call failed is its
   input record with generationStatus Failed and generationError set; the
   record of a URL whose call succeeded has generationStatus Success and no
   generationError; the record of a URL not reached yet is its input record;
   the activation is either awaiting the call of the next URL or has
   returned after the last one, one iteration per URL, and never throws. *)
C5_GenerationIsolatesFailures ==
    \A r \in 1..Len(gens) :
        LET run == gens[r]
            n == Len(run.urlsToGenerate)
        IN /\ Len(run.currentList) = n
           /\ run.pc \in {"await_ai", "returned"}
           /\ run.pc = "returned" <=> run.idx = n
           /\ run.failed \subseteq 1..run.idx
           /\ \A k \in 1..n :
                IF k \in run.failed THEN
                    /\ run.currentList[k].generationError \notin {Undef, Null, ""}
                    /\ run.currentList[k] =
                         [run.urlsToGenerate[k] EXCEPT
                            !.generationStatus = "Failed",
                            !.generationError = run.currentList[k].generationError]
                ELSE IF k <= run.idx THEN
                    /\ run.currentList[k].generationStatus = "Success"
                    /\ run.currentList[k].generationError = Undef
                    /\ run.currentList[k].url = run.urlsToGenerate[k].url
                    /\ "atType" \in DOMAIN run.currentList[k].schema
                ELSE run.currentList[k] = run.urlsToGenerate[k]

(* Three URLs, the call of the second one failed, the loop went on and
   returned with the first and the third generated. *)
C5_Witness ==
    /\ Len(gens) = 1
    /\ gens[1].caller = "direct"
    /\ gens[1].pc = "returned"
    /\ Len(gens[1].urlsToGenerate) = 3
    /\ gens[1].failed = {2}
    /\ gens[1].currentList[1].generationStatus = "Success"
    /\ gens[1].currentList[2].generationStatus = "Failed"
    /\ gens[1].currentList[3].generationStatus = "Success"

(***************************************************************************)
(* analyzeUrl called again and again on the pages of one site, a call made *)
(* while earlier ones are still in flight included: calls is the list of   *)
(* the calls made so far, each with its position (awaiting the direct or   *)
(* the proxy fetch inside fetchWithCorsFallback, awaiting response.text(), *)
(* or over), the calls that were over when it was made, the network        *)
(* attempts it made and the record it returned (a record of status Unknown *)
(* while it is in flight).                                                 *)
(***************************************************************************)
AnalyzerPages == 1..5

InitAnalyzer ==
    /\ AppInit
    /\ task = [handler |-> "analyzeUrl", calls |-> <<>>]
    /\ an = AnIdle
    /\ gens = <<>>
    /\ inj = InjIdle
    /\ hist = HistInit

(* analyzeUrl(url) up to the first await: the direct request is made. *)
AnalyzeUrlCall ==
    /\ Len(task.calls) < MaxAnalyzeCalls
    /\ \E url \in AnalyzerPages :
        task' = [task EXCEPT !.calls = Append(@,
                    [url |-> url, pc |-> "await_direct",
                     after |-> {k \in 1..Len(task.calls) : task.calls[k].pc = "over"},
                     direct |-> "pending", proxy |-> "not made",
                     attempts |-> <<"direct">>,
                     record |-> UrlInfo(url, Undef, "Unknown", Undef, Undef)])]
    /\ UNCHANGED <<appVars, an, gens, inj, hist>>

(* The fetch a call awaits inside fetchWithCorsFallback settles: the proxy
   request is made, or the gateway throws or gives a response that is not
   ok and the call returns from its catch block, or the call goes on to
   await response.text(). *)
AnalyzeUrlFetchSettle ==
    /\ \E k \in 1..Len(task.calls), outcome \in NetOutcomes :
        LET c == task.calls[k]
            settled == Fetch(outcome, ServerResponse(c.url))
            d == IF c.pc = "await_direct" THEN settled
                 ELSE Fetch(c.direct, ServerResponse(c.url))
            r == fetchWithCorsFallback(d, settled)
            record == analyzeUrl(c.url, d, settled)
            made == IF c.pc = "await_direct"
                    THEN [c EXCEPT !.direct = outcome, !.attempts = r.attempts]
                    ELSE [c EXCEPT !.proxy = outcome]
        IN /\ c.pc \in {"await_direct", "await_proxy"}
           /\ task' = [task EXCEPT !.calls[k] =
                IF c.pc = "await_direct" /\ "proxy" \in SeqToSet(r.attempts) THEN
                    [made EXCEPT !.pc = "await_proxy", !.proxy = "pending"]
                ELSE IF record.schemaStatus = "AnalysisFailed" THEN
                    [made EXCEPT !.pc = "over", !.record = record]
                ELSE
                    [made EXCEPT !.pc = "await_text"]]
    /\ UNCHANGED <<appVars, an, gens, inj, hist>>

(* response.text() resolves: the document is parsed and the record
   returned. *)
AnalyzeUrlTextSettle ==
    /\ \E k \in 1..Len(task.calls) :
        LET c == task.calls[k]
            d == Fetch(c.direct, ServerResponse(c.url))
            x == Fetch(IF c.proxy = "not made" THEN c.direct ELSE c.proxy,
                       ServerResponse(c.url))
        IN /\ c.pc = "await_text"
           /\ task' = [task EXCEPT !.calls[k] =
                    [c EXCEPT !.pc = "over", !.record = analyzeUrl(c.url, d, x)]]
    /\ UNCHANGED <<appVars, an, gens, inj, hist>>

SpecAnalyzer ==
    InitAnalyzer
    /\ [][AnalyzeUrlCall \/ AnalyzeUrlFetchSettle \/ AnalyzeUrlTextSettle]_vars

(* C11: once a call of analyzeUrl has returned Found or AuditRecommended for
   a URL, every later call for that URL makes no network attempt and returns
   Cached with the title of the earlier call. *)
C11_CacheShortCircuit ==
    \A i, j \in 1..Len(task.calls) :
        (/\ i \in task.calls[j].after
         /\ task.calls[i].url = task.calls[j].url
         /\ task.calls[i].record.schemaStatus \in {"Found", "AuditRecommended"})
        => /\ task.calls[j].attempts = <<>>
           /\ task.calls[j].pc = "over" =>
                /\ task.calls[j].record.schemaStatus = "Cached"
                /\ task.calls[j].record.title = task.calls[i].record.title

(* C12: a fetched page whose JSON-LD script does not parse as JSON is
   returned as NotFound, never as Found or AuditRecommended. *)
C12_BrokenJsonLdCountsAsAbsent ==
    \A k \in 1..Len(task.calls) :
        LET c == task.calls[k]
            page == ServerResponse(c.url)
        IN (/\ c.pc = "over"
            /\ c.record.schemaStatus # "AnalysisFailed"
            /\ page.hasLdJson
            /\ ~page.ldJsonParses)
           => c.record.schemaStatus = "NotFound"

(***************************************************************************)
(* fetchWithCorsFallback called again and again, a call made while earlier *)
(* ones are still in flight included: calls is the list of the logical     *)
(* fetches made so far, each with its position (awaiting the direct fetch  *)
(* of line 17, awaiting the proxy fetch of line 25, or over), with what    *)
(* the network did to the direct request and to the proxy request (when    *)
(* one was made) and with what the gateway gave back: while the call is in *)
(* flight, result holds the attempts made so far.  Besides the TypeError   *)
(* of a network or CORS failure, fetch may reject with another error (an   *)
(* AbortError).                                                            *)
(***************************************************************************)
InitGateway ==
    /\ AppInit
    /\ task = [handler |-> "fetchWithCorsFallback", calls |-> <<>>]
    /\ an = AnIdle
    /\ gens = <<>>
    /\ inj = InjIdle
    /\ hist = HistInit

(* fetchWithCorsFallback(url) up to its first await: the direct request is
   made. *)
FetchCall ==
    /\ Len(task.calls) < MaxFetchCalls
    /\ \E url \in AnalyzerPages :
        task' = [task EXCEPT !.calls = Append(@,
                    [url |-> url, pc |-> "await_direct",
                     direct |-> "pending", proxy |-> "not made",
                     result |-> [kind |-> "pending", response |-> NoResponse,
                                 message |-> Undef, attempts |-> <<"direct">>]])]
    /\ UNCHANGED <<appVars, an, gens, inj, hist>>

(* The fetch a call awaits settles.  After the direct one the call returns
   the response, throws, or makes the proxy request and awaits it; after
   the proxy one it returns or throws. *)
FetchSettle ==
    /\ \E k \in 1..Len(task.calls), outcome \in NetOutcomes \cup {"AbortError"} :
        LET c == task.calls[k]
            settled == Fetch(outcome, ServerResponse(c.url))
            d == IF c.pc = "await_direct" THEN settled
                 ELSE Fetch(c.direct, ServerResponse(c.url))
            r == fetchWithCorsFallback(d, settled)
        IN /\ c.pc \in {"await_direct", "await_proxy"}
           /\ task' = [task EXCEPT !.calls[k] =
                IF c.pc = "await_direct" /\ "proxy" \in SeqToSet(r.attempts) THEN
                    [c EXCEPT !.pc = "await_proxy", !.direct = outcome,
                              !.proxy = "pending", !.result.attempts = r.attempts]
                ELSE IF c.pc = "await_direct" THEN
                    [c EXCEPT !.pc = "over", !.direct = outcome, !.result = r]
                ELSE
                    [c EXCEPT !.pc = "over", !.proxy = outcome, !.result = r]]
    /\ UNCHANGED <<appVars, an, gens, inj, hist>>

SpecGateway == InitGateway /\ [][FetchCall \/ FetchSettle]_vars

(* C13: every logical fetch starts with the direct attempt and makes at most
   two attempts; a direct response, an HTTP error status included, is
   returned as it is with no proxy request; a proxy request is made only
   after the direct attempt failed at the network level. *)
C13_GatewayAttemptSequence ==
    \A k \in 1..Len(task.calls) :
        LET c == task.calls[k]
            r == c.result
        IN /\ Len(r.attempts) \in 1..2
           /\ r.attempts[1] = "direct"
           /\ Len(r.attempts) = 2 => r.attempts[2] = "proxy"
           /\ c.direct = "ok" =>
                /\ r.attempts = <<"direct">>
                /\ r.kind = "response"
                /\ r.response = ServerResponse(c.url)
           /\ "proxy" \in SeqToSet(r.attempts) => c.direct = "TypeError"

(* An HTTP 500 returned as it is after one attempt, and a fetch that went
   through the proxy. *)
C13_Witness ==
    \E j, k \in 1..Len(task.calls) :
        /\ task.calls[j].direct = "ok"
        /\ task.calls[j].result.response.status = 500
        /\ task.calls[j].result.attempts = <<"direct">>
        /\ task.calls[k].result.attempts = <<"direct", "proxy">>
        /\ task.calls[k].result.kind = "response"

(* C14 as stated: whenever the gateway throws, the direct attempt and the
   proxy attempt were both made and both failed. *)
C14_ThrowsOnlyAfterBothFailed ==
    \A k \in 1..Len(task.calls) :
        LET c == task.calls[k] IN
        c.result.kind = "throw" =>
            /\ c.result.attempts = <<"direct", "proxy">>
            /\ c.direct # "ok"
            /\ c.proxy \notin {"ok", "not made"}

(* C14 amended: after a TypeError of the direct attempt the proxy is always
   tried, and the gateway throws its both-paths-failed error only when the
   proxy attempt failed too; a direct failure that is not a TypeError is
   thrown again as it is, the proxy not having been tried. *)
C14_ThrowsAfterBothFailedOrRethrows ==
    \A k \in 1..Len(task.calls) :
        LET c == task.calls[k]
            r == c.result
        IN /\ c.direct = "TypeError" => r.attempts = <<"direct", "proxy">>
           /\ r.kind = "throw" =>
                \/ /\ c.direct = "TypeError"
                   /\ r.attempts = <<"direct", "proxy">>
                   /\ c.proxy \notin {"ok", "not made"}
                   /\ r.message = BothFailedMessage
                \/ /\ c.direct \notin {"ok", "TypeError"}
                   /\ r.attempts = <<"direct">>
                   /\ r.message = c.direct

(* One fetch thrown after both paths failed, one thrown again after the
   direct attempt alone. *)
C14_Witness ==
    \E j, k \in 1..Len(task.calls) :
        /\ task.calls[j].result.kind = "throw"
        /\ task.calls[j].result.attempts = <<"direct", "proxy">>
        /\ task.calls[j].result.message = BothFailedMessage
        /\ task.calls[k].result.kind = "throw"
        /\ task.calls[k].direct = "AbortError"
        /\ task.calls[k].result.attempts = <<"direct">>

(***************************************************************************)
(* parseSitemap (wordpressService.ts), one await at a time.  The sitemap   *)
(* documents of the model: index lists the sitemaps A and B and, beside    *)
(* them, a page; A and C list pages; B is a nested index of C and D; D is  *)
(* empty; self lists itself; loopIndex lists A and back, and back lists    *)
(* loopIndex; withBad lists A and bad, whose XML is malformed; down        *)
(* answers HTTP 500.                                                       *)
(***************************************************************************)
SitemapDoc(status, wellFormed, sitemapLocs, urlLocs) ==
    [status |-> status, wellFormed |-> wellFormed,
     sitemapLocs |-> sitemapLocs, urlLocs |-> urlLocs]

SitemapServer(url) ==
    IF url = "index" THEN SitemapDoc(200, TRUE, <<"A", "B">>, <<9>>)
    ELSE IF url = "A" THEN SitemapDoc(200, TRUE, <<>>, <<1, 2>>)
    ELSE IF url = "B" THEN SitemapDoc(200, TRUE, <<"C", "D">>, <<>>)
    ELSE IF url = "C" THEN SitemapDoc(200, TRUE, <<>>, <<3>>)
    ELSE IF url = "D" THEN SitemapDoc(200, TRUE, <<>>, <<>>)
    ELSE IF url = "self" THEN SitemapDoc(200, TRUE, <<"self">>, <<>>)
    ELSE IF url = "loopIndex" THEN SitemapDoc(200, TRUE, <<"A", "back">>, <<>>)
    ELSE IF url = "back" THEN SitemapDoc(200, TRUE, <<"loopIndex">>, <<>>)
    ELSE IF url = "withBad" THEN SitemapDoc(200, TRUE, <<"A", "bad">>, <<>>)
    ELSE IF url = "bad" THEN SitemapDoc(200, FALSE, <<>>, <<>>)
    ELSE SitemapDoc(500, TRUE, <<>>, <<>>)

SitemapUrls ==
    {"index", "A", "B", "C", "D", "self", "loopIndex", "back", "withBad", "bad",
     "down"}

(* An activation of parseSitemap(url) at its first await. *)
parseSitemap(url) ==
    [url |-> url, awaiting |-> "fetch", sitemapLocs |-> <<>>, idx |-> 0,
     allGroups |-> <<>>]

(* allGroups.concat(nestedGroups), the other way round. *)
ConcatGroupsReversed(allGroups, nestedGroups) == nestedGroups \o allGroups

(* allGroups = allGroups.concat(nestedGroups) *)
ConcatGroups(allGroups, nestedGroups) == allGroups \o nestedGroups

RECURSIVE ReturnGroups(_, _)
(* The innermost activation returns groups to callers, the activations
   awaiting it: the caller appends them and calls parseSitemap for its next
   location, or returns its own allGroups when it has none left. *)
ReturnGroups(callers, groups) ==
    IF callers = <<>> THEN [stack |-> <<>>, pc |-> "returned", result |-> groups]
    ELSE
    LET f == callers[Len(callers)]
        rest == SubSeq(callers, 1, Len(callers) - 1)
        allGroups == ConcatGroups(f.allGroups, groups)
    IN IF f.idx < Len(f.sitemapLocs) THEN
           [stack |-> rest \o <<[f EXCEPT !.idx = @ + 1, !.allGroups = allGroups],
                                 parseSitemap(f.sitemapLocs[f.idx + 1])>>,
            pc |-> "await_fetch", result |-> <<>>]
       ELSE ReturnGroups(rest, allGroups)

(* The three cases of parseSitemap on the parsed document, locs being its
   sitemap > loc entries. *)
ParseCases(callers, url, xmlDoc, locs) ==
    IF Len(locs) > 0 THEN
        [stack |-> callers \o <<[url |-> url, awaiting |-> "child",
                                  sitemapLocs |-> locs, idx |-> 1,
                                  allGroups |-> <<>>],
                                 parseSitemap(locs[1])>>,
         pc |-> "await_fetch", result |-> <<>>]
    ELSE IF Len(xmlDoc.urlLocs) > 0 THEN
        ReturnGroups(callers, <<[sitemapUrl |-> url, urls |-> xmlDoc.urlLocs]>>)
    ELSE ReturnGroups(callers, <<>>)

(* A parseSitemap that leaves out the locations it is already resolving. *)
ParseDocumentVisited(callers, url, xmlDoc) ==
    ParseCases(callers, url, xmlDoc,
        FilterSeq(xmlDoc.sitemapLocs,
                  SitemapUrls \ ({url} \cup {callers[k].url : k \in 1..Len(callers)})))

ParseDocument(callers, url, xmlDoc) ==
    ParseCases(callers, url, xmlDoc, xmlDoc.sitemapLocs)

(* The message of the Error thrown inside the try of parseSitemap, Undef
   when there is none. *)
SitemapFailure(r) ==
    IF r.kind = "throw" THEN r.message
    ELSE IF ~ResponseOk(r.response) THEN
        "Failed to fetch sitemap: Server responded with status"
    ELSE IF ~r.response.wellFormed THEN
        "Failed to parse sitemap XML. The file may be malformed."
    ELSE Undef

SitemapRoots == SitemapUrls \ {"C", "D", "back", "bad"}

InitSitemap ==
    /\ AppInit
    /\ \E root \in SitemapRoots :
        task = [handler |-> "parseSitemap", root |-> root,
                stack |-> <<parseSitemap(root)>>, pc |-> "await_fetch",
                direct |-> "pending",
                gateway |-> [kind |-> "pending", response |-> NoResponse,
                             message |-> Undef, attempts |-> <<"direct">>],
                result |-> <<>>, fetched |-> <<>>, fetchFailed |-> FALSE,
                errorMessage |-> Undef]
    /\ an = AnIdle
    /\ gens = <<>>
    /\ inj = InjIdle
    /\ hist = HistInit

(* The fetch the innermost activation awaits inside fetchWithCorsFallback
   settles: the proxy request is made, or the gateway has its result.  An
   error, or a response that is not ok, is caught and thrown again, with the
   prefix of line 91, by that activation and by every caller awaiting it;
   otherwise the activation goes on to await response.text(). *)
SitemapFetchSettle ==
    /\ task.pc \in {"await_fetch", "await_proxy"}
    /\ \E outcome \in NetOutcomes :
        LET url == task.stack[Len(task.stack)].url
            settled == Fetch(outcome, SitemapServer(url))
            d == IF task.pc = "await_fetch" THEN settled
                 ELSE Fetch(task.direct, SitemapServer(url))
            r == fetchWithCorsFallback(d, settled)
            failed == r.kind = "throw" \/ ~ResponseOk(r.response)
        IN task' =
            IF task.pc = "await_fetch" /\ "proxy" \in SeqToSet(r.attempts) THEN
                [task EXCEPT !.pc = "await_proxy", !.direct = outcome,
                             !.gateway.attempts = r.attempts]
            ELSE IF failed THEN
                [task EXCEPT
                    !.stack = <<>>, !.pc = "thrown", !.gateway = r,
                    !.fetched = Append(@, [url |-> url, attempts |-> r.attempts]),
                    !.fetchFailed = TRUE,
                    !.errorMessage = SitemapFailure(r)]
            ELSE
                [task EXCEPT
                    !.stack[Len(task.stack)].awaiting = "text",
                    !.pc = "await_text", !.gateway = r,
                    !.fetched = Append(@, [url |-> url, attempts |-> r.attempts])]
    /\ UNCHANGED <<appVars, an, gens, inj, hist>>

(* response.text() of the innermost activation resolves and the document is
   parsed: malformed XML throws like a failed fetch; an index calls
   parseSitemap for its first location, whose direct fetch is made; a
   sitemap of pages, or an empty one, returns to the caller. *)
SitemapTextSettle ==
    /\ task.pc = "await_text"
    /\ LET callers == SubSeq(task.stack, 1, Len(task.stack) - 1)
           url == task.stack[Len(task.stack)].url
           failure == SitemapFailure(task.gateway)
           next == IF failure # Undef
                   THEN [stack |-> <<>>, pc |-> "thrown", result |-> <<>>]
                   ELSE ParseDocument(callers, url, task.gateway.response)
       IN /\ Len(next.stack) <= MaxSitemapDepth
          /\ task' = [task EXCEPT
                    !.stack = next.stack,
                    !.pc = next.pc,
                    !.direct = "pending",
                    !.gateway = [kind |-> "pending", response |-> NoResponse,
                                 message |-> Undef, attempts |-> <<"direct">>],
                    !.result = next.result,
                    !.fetchFailed = failure # Undef,
                    !.errorMessage = failure]
    /\ UNCHANGED <<appVars, an, gens, inj, hist>>

SpecSitemap == InitSitemap /\ [][SitemapFetchSettle \/ SitemapTextSettle]_vars

(* Every fetch and every body read settles in the end. *)
SpecSitemapFair ==
    SpecSitemap /\ WF_vars(SitemapFetchSettle \/ SitemapTextSettle)

(* The roots from which no sitemap index is reachable from itself. *)
AcyclicRoots == SitemapRoots \ {"self", "loopIndex"}

RECURSIVE Resolve(_), ResolveEach(_)
(* resolve as the claims define it: the groups of the nested sitemaps, one
   after the other in listed order; one group for a sitemap of pages. *)
Resolve(url) ==
    LET doc == SitemapServer(url) IN
    IF doc.sitemapLocs # <<>> THEN ResolveEach(doc.sitemapLocs)
    ELSE IF doc.urlLocs # <<>> THEN <<[sitemapUrl |-> url, urls |-> doc.urlLocs]>>
    ELSE <<>>

ResolveEach(locs) ==
    IF locs = <<>> THEN <<>> ELSE Resolve(Head(locs)) \o ResolveEach(Tail(locs))

RECURSIVE ListedOrder(_), ListedOrderEach(_)
(* The documents under url, each index before its nested sitemaps, those in
   listed order. *)
ListedOrder(url) == <<url>> \o ListedOrderEach(SitemapServer(url).sitemapLocs)

ListedOrderEach(locs) ==
    IF locs = <<>> THEN <<>>
    ELSE ListedOrder(Head(locs)) \o ListedOrderEach(Tail(locs))

FetchedUrls == [k \in 1..Len(task.fetched) |-> task.fetched[k].url]

(* C15: only the innermost activation has a fetch or a body read in
   flight; on an acyclic sitemap graph the documents are fetched one after
   the other in listed order; and a resolution that returned gives the concatenation, in listed
   order, of the resolutions of the nested sitemaps, with no group for page
   locations that stand beside nested sitemap locations. *)
C15_SitemapConcatenation ==
    /\ \A k \in 1..Len(task.stack) :
          task.stack[k].awaiting \in {"fetch", "text"} <=> k = Len(task.stack)
    /\ task.root \in AcyclicRoots =>
          /\ Len(FetchedUrls) <= Len(ListedOrder(task.root))
          /\ FetchedUrls = SubSeq(ListedOrder(task.root), 1, Len(FetchedUrls))
    /\ task.pc = "returned" =>
          /\ task.result = Resolve(task.root)
          /\ FetchedUrls = ListedOrder(task.root)
          /\ \A k \in 1..Len(task.result) :
                SitemapServer(task.result[k].sitemapUrl).sitemapLocs = <<>>

(* The index of A and B (a nested index of C and D) has been resolved. *)
C15_Witness ==
    /\ task.root = "index"
    /\ task.pc = "returned"
    /\ task.result = <<[sitemapUrl |-> "A", urls |-> <<1, 2>>],
                       [sitemapUrl |-> "C", urls |-> <<3>>]>>
    /\ FetchedUrls = <<"index", "A", "B", "C", "D">>

(* C16: on an acyclic sitemap graph the resolution ends, with a result or
   an error; on an index that lists itself, directly or through a nested
   index, and as long as every fetch succeeds, it never ends. *)
C16_NoCycleProtection ==
    /\ (task.root \in AcyclicRoots) ~> (task.pc \in {"returned", "thrown"})
    /\ []((task.root \notin AcyclicRoots /\ ~task.fetchFailed)
            => task.pc \in {"await_fetch", "await_proxy", "await_text"})

(* The index that lists itself through back is being resolved for the third
   time, every fetch having succeeded. *)
C16_Witness ==
    /\ task.root = "loopIndex"
    /\ ~task.fetchFailed
    /\ task.pc = "await_fetch"
    /\ Cardinality({k \in 1..Len(task.stack) : task.stack[k].url = "loopIndex"}) = 3

(***************************************************************************)
(* validateSchemaClientSide applied to one schema and one target type.     *)
(* The schemas: an entity carrying any values, or none, for the required   *)
(* properties of the type, placed as the schema itself ("self"), as the    *)
(* element of an @graph with a string @type ("graph") or an array @type    *)
(* ("graphArray"), as the schema itself with an array @type ("topArray"),  *)
(* or as the schema itself under another @type ("otherType").              *)
(***************************************************************************)
PropertyValues == {"ok", "bad", "", "null", "undefined"}

EntityProps(schemaType) ==
    UNION {[D -> PropertyValues] :
            D \in SUBSET SeqToSet(validationRules[schemaType].required)}

SchemaOfShape(shape, schemaType, props) ==
    IF shape = "self" THEN
        [atType |-> TypeString(schemaType), props |-> props, graph |-> <<>>]
    ELSE IF shape = "graph" THEN
        [atType |-> NoType, props |-> <<>>,
         graph |-> <<[atType |-> TypeString(schemaType), props |-> props]>>]
    ELSE IF shape = "graphArray" THEN
        [atType |-> NoType, props |-> <<>>,
         graph |-> <<[atType |-> [array |-> TRUE, names |-> <<"Thing", schemaType>>],
                      props |-> props]>>]
    ELSE IF shape = "topArray" THEN
        [atType |-> [array |-> TRUE, names |-> <<schemaType>>], props |-> props,
         graph |-> <<>>]
    ELSE
        [atType |-> TypeString(IF schemaType = "Article" THEN "Product" ELSE "Article"),
         props |-> props, graph |-> <<>>]

InitValidator ==
    /\ AppInit
    /\ \E schemaType \in SchemaType,
          shape \in {"self", "graph", "graphArray", "topArray", "otherType"} :
        \E props \in EntityProps(schemaType) :
            task = [handler |-> "validateSchemaClientSide", pc |-> "called",
                    schemaType |-> schemaType, shape |-> shape, props |-> props,
                    schema |-> SchemaOfShape(shape, schemaType, props),
                    result |-> [isValid |-> FALSE, errors |-> <<>>, warnings |-> <<>>]]
    /\ an = AnIdle
    /\ gens = <<>>
    /\ inj = InjIdle
    /\ hist = HistInit

ValidateCall ==
    /\ task.pc = "called"
    /\ task' = [task EXCEPT
                    !.pc = "returned",
                    !.result = validateSchemaClientSide(task.schema, task.schemaType)]
    /\ UNCHANGED <<appVars, an, gens, inj, hist>>

SpecValidator == InitValidator /\ [][ValidateCall]_vars

(* The required properties of the target type that the entity given to the
   validator does not carry: no key, or a null, undefined or empty value. *)
AbsentRequired ==
    {prop \in SeqToSet(validationRules[task.schemaType].required) :
        \/ prop \notin DOMAIN task.props
        \/ task.props[prop] \in {"null", "undefined", ""}}

ErrorsOf(result) == {result.errors[k] : k \in 1..Len(result.errors)}

NamesMissing(result, prop) ==
    [code |-> "MISSING_REQUIRED", property |-> prop] \in ErrorsOf(result)

(* C17 as stated: whatever the schema object, each required property of the
   target type it lacks makes the result invalid with a MISSING_REQUIRED
   error naming that property. *)
C17_RequiredEnforcedOnEveryObject ==
    task.pc = "returned" =>
        \A prop \in AbsentRequired :
            ~task.result.isValid /\ NamesMissing(task.result, prop)

(* C17 amended: each absent required property makes the result invalid;
   when the primary entity is found (the schema itself with @type equal to
   the target type, or the first @graph element whose @type equals or
   includes it) the errors name that property with MISSING_REQUIRED; when it
   is not found the only error is MISSING_PRIMARY_ENTITY. *)
C17_RequiredEnforcedOnPrimaryEntity ==
    task.pc = "returned" =>
        /\ task.shape \in {"self", "graph", "graphArray"} =>
              \A prop \in AbsentRequired :
                  ~task.result.isValid /\ NamesMissing(task.result, prop)
        /\ task.shape \in {"topArray", "otherType"} =>
              /\ ~task.result.isValid
              /\ task.result.errors =
                    <<[code |-> "MISSING_PRIMARY_ENTITY", property |-> Undef]>>

(* A Product in an @graph with a name and no offers: one MISSING_REQUIRED
   error, on offers. *)
C17_Witness ==
    /\ task.pc = "returned"
    /\ task.schemaType = "Product"
    /\ task.shape = "graph"
    /\ AbsentRequired = {"offers"}
    /\ ~task.result.isValid
    /\ task.result.errors = <<[code |-> "MISSING_REQUIRED", property |-> "offers"]>>

(***************************************************************************)
(* injectSchema called again and again, a call made while earlier ones are *)
(* in flight included, under every behaviour of the site.  Each call holds *)
(* sc, what the site has answered it so far ("unasked" for a request not   *)
(* yet answered), n, the number of its requests that have settled, and its *)
(* position: awaiting a fetch, awaiting response.json() of the response    *)
(* that arrived, awaiting getPostIdFromUrl (the lookup has returned and    *)
(* injectSchema has not resumed yet), or over.                             *)
(***************************************************************************)
LookupOutcomes == {"found", "empty", "http_error", "throw"}

UpdateOutcomes ==
    {"ok", "404", "error_message", "error_no_message", "error_bad_json", "throw"}

ErrorResponses == {"error_message", "error_no_message", "error_bad_json"}

InitInjectSchema ==
    /\ AppInit
    /\ task = [handler |-> "injectSchema", calls |-> <<>>]
    /\ an = AnIdle
    /\ gens = <<>>
    /\ inj = InjIdle
    /\ hist = HistInit

(* injectSchema(creds, url, schema) up to the first await: getPostIdFromUrl
   returns null for a URL without a slug, and makes the posts lookup
   otherwise. *)
InjectSchemaCall ==
    /\ Len(task.calls) < MaxInjectCalls
    /\ \E slug \in {"slug", ""} :
        LET sc == [slug |-> slug, posts |-> "unasked", pages |-> "unasked",
                   updatePosts |-> "unasked", updatePages |-> "unasked"]
        IN task' = [task EXCEPT !.calls = Append(@,
                    [sc |-> sc, n |-> 0,
                     pc |-> IF getPostIdFromUrl(sc).requests = <<>>
                            THEN "await_postId" ELSE "await_fetch",
                     result |-> [success |-> FALSE, error |-> Undef,
                                 requests |-> <<>>]])]
    /\ UNCHANGED <<appVars, an, gens, inj, hist>>

(* The fetch a call awaits settles.  A lookup that answers ok and an update
   that answers an error other than 404 have their body read next; a lookup
   that throws ends getPostIdFromUrl; otherwise the next request is made, or
   the function returns when none is left. *)
InjectSchemaFetchSettle ==
    /\ \E k \in 1..Len(task.calls), outcome \in LookupOutcomes \cup UpdateOutcomes :
        LET c == task.calls[k]
            request == injectSchema(c.sc).requests[c.n + 1]
            sc == IF request = "GET posts" THEN [c.sc EXCEPT !.posts = outcome]
                  ELSE IF request = "GET pages" THEN [c.sc EXCEPT !.pages = outcome]
                  ELSE IF request = "POST posts"
                       THEN [c.sc EXCEPT !.updatePosts = outcome]
                  ELSE [c.sc EXCEPT !.updatePages = outcome]
            lookup == request \in {"GET posts", "GET pages"}
            n == c.n + 1
        IN /\ c.pc = "await_fetch"
           /\ outcome \in (IF lookup THEN LookupOutcomes ELSE UpdateOutcomes)
           /\ task' = [task EXCEPT !.calls[k] =
                IF \/ lookup /\ outcome \in {"found", "empty"}
                   \/ ~lookup /\ outcome \notin {"ok", "404", "throw"} THEN
                    [c EXCEPT !.sc = sc, !.n = n, !.pc = "await_json"]
                ELSE IF lookup /\ n = Len(getPostIdFromUrl(sc).requests) THEN
                    [c EXCEPT !.sc = sc, !.n = n, !.pc = "await_postId"]
                ELSE IF n < Len(injectSchema(sc).requests) THEN
                    [c EXCEPT !.sc = sc, !.n = n]
                ELSE
                    [c EXCEPT !.sc = sc, !.n = n, !.pc = "over",
                              !.result = injectSchema(sc)]]
    /\ UNCHANGED <<appVars, an, gens, inj, hist>>

(* response.json() of the response that arrived settles: the lookup returns
   the id or goes on to the pages lookup, the update returns the error or,
   when the body does not parse, goes on to the next post type. *)
InjectSchemaJsonSettle ==
    /\ \E k \in 1..Len(task.calls) :
        LET c == task.calls[k] IN
        /\ c.pc = "await_json"
        /\ task' = [task EXCEPT !.calls[k] =
                IF /\ injectSchema(c.sc).requests[c.n] \in {"GET posts", "GET pages"}
                   /\ c.n = Len(getPostIdFromUrl(c.sc).requests) THEN
                    [c EXCEPT !.pc = "await_postId"]
                ELSE IF c.n < Len(injectSchema(c.sc).requests) THEN
                    [c EXCEPT !.pc = "await_fetch"]
                ELSE
                    [c EXCEPT !.pc = "over", !.result = injectSchema(c.sc)]]
    /\ UNCHANGED <<appVars, an, gens, inj, hist>>

(* await getPostIdFromUrl resumes: without an id injectSchema returns, with
   one it makes the update request of the first post type. *)
InjectSchemaResume ==
    /\ \E k \in 1..Len(task.calls) :
        LET c == task.calls[k] IN
        /\ c.pc = "await_postId"
        /\ task' = [task EXCEPT !.calls[k] =
                IF c.n < Len(injectSchema(c.sc).requests) THEN
                    [c EXCEPT !.pc = "await_fetch"]
                ELSE
                    [c EXCEPT !.pc = "over", !.result = injectSchema(c.sc)]]
    /\ UNCHANGED <<appVars, an, gens, inj, hist>>

SpecInjectSchema ==
    InitInjectSchema
    /\ [][InjectSchemaCall \/ InjectSchemaFetchSettle \/ InjectSchemaJsonSettle
           \/ InjectSchemaResume]_vars

(* C18: when the slug matches a page and no post, and the posts endpoint
   answers 404 for the id while the pages endpoint accepts the update,
   injectSchema looks up posts, then pages, makes exactly one failed update
   on posts followed by exactly one successful update on pages, and returns
   success.  (updatePages is "unasked" in a call that was never answered by
   the pages endpoint: the endpoint would have accepted the update.) *)
C18_InjectFallsBackToPages ==
    \A k \in 1..Len(task.calls) :
        LET c == task.calls[k] IN
        (/\ c.pc = "over"
         /\ c.sc.slug # ""
         /\ c.sc.posts = "empty"
         /\ c.sc.pages = "found"
         /\ c.sc.updatePosts = "404"
         /\ c.sc.updatePages \in {"ok", "unasked"})
        => /\ c.result.success
           /\ c.result.error = Undef
           /\ c.result.requests = <<"GET posts", "GET pages", "POST posts", "POST pages">>

C18_Witness ==
    \E k \in 1..Len(task.calls) :
        /\ task.calls[k].pc = "over"
        /\ task.calls[k].sc = [slug |-> "slug", posts |-> "empty", pages |-> "found",
                               updatePosts |-> "404", updatePages |-> "ok"]
        /\ task.calls[k].result.success
        /\ Len(task.calls[k].result.requests) = 4

(* C19: in the update phase a 404 makes injectSchema try the next endpoint,
   and an error response other than 404 ends it at that endpoint with
   success false, with the API's message when the response carries one. *)
C19_Only404FallsThrough ==
    \A k \in 1..Len(task.calls) :
        LET c == task.calls[k]
            LastRequest == c.result.requests[Len(c.result.requests)]
        IN
        (c.pc = "over" /\ c.sc.updatePosts # "unasked") =>
            /\ c.sc.updatePosts \in ErrorResponses =>
                  /\ ~c.result.success
                  /\ LastRequest = "POST posts"
                  /\ c.sc.updatePosts = "error_message" =>
                        c.result.error = "API error message"
            /\ c.sc.updatePosts = "404" =>
                  /\ LastRequest = "POST pages"
                  /\ c.sc.updatePages \in ErrorResponses =>
                        /\ ~c.result.success
                        /\ c.sc.updatePages = "error_message" =>
                              c.result.error = "API error message"

(***************************************************************************)
(* Type suggestion, under SpecAnalysis.                                    *)
(***************************************************************************)
(* C20: the mapping kept from the AI's answer holds only members of the
   SchemaType enumeration, and every record performAnalysis returns has a
   selectedSchemaType of the enumeration. *)
C20_SuggestionFailsClosed ==
    /\ \A u \in DOMAIN an.suggestions : an.suggestions[u] \in SchemaType
    /\ an.pc = "returned" =>
          \A k \in 1..Len(an.result) : an.result[k].selectedSchemaType \in SchemaType

(* The AI named a type outside the enumeration for page 1 and Product for
   page 2: the pair of page 1 was dropped and page 1 got the default. *)
C20_Witness ==
    /\ an.pc = "returned"
    /\ DOMAIN an.suggestions = {2}
    /\ \E k \in 1..Len(an.result) :
          /\ an.result[k].url = 1
          /\ an.result[k].schemaStatus = "NotFound"
          /\ an.result[k].selectedSchemaType = "Article"
    /\ \E k \in 1..Len(an.result) :
          /\ an.result[k].url = 2
          /\ an.result[k].selectedSchemaType = "Product"


(***************************************************************************)
(* Properties of the wizard's failure handling, record list and stages,    *)
(* under Spec.                                                             *)
(***************************************************************************)
(* C21: a failed suggestSchemaTypes call does not abort the analysis:
   performAnalysis never ends by throwing, and the wizard never reports the
   suggestion failure as the error of an abandoned run. *)
C21_SuggestionFailureDegrades ==
    /\ an.pc # "thrown"
    /\ error # "AI failed to suggest schema types."


(* The records of the page-record list and of the lists the activations of
   performGeneration work on. *)
PageRecords ==
    {urlList[k] : k \in 1..Len(urlList)}
        \cup UNION {{gens[r].currentList[k] : k \in 1..Len(gens[r].currentList)} :
                        r \in 1..Len(gens)}

(* C22 as stated: a record with generationStatus Success has a non-null
   schema and validationStatus Valid or Invalid. *)
C22_SuccessHasSchemaAndVerdict ==
    \A u \in PageRecords :
        u.generationStatus = "Success" =>
            /\ u.schema # UndefObj /\ u.schema # NullObj
            /\ u.validationStatus \in {"Valid", "Invalid"}

(* C22, amended: a record with generationStatus Success has validationStatus
   Valid or Invalid, and a non-null schema whenever the verdict is Valid; a
   record whose editor was emptied keeps Success with no schema and the
   verdict Invalid. *)
C22_SuccessHasVerdict ==
    \A u \in PageRecords :
        u.generationStatus = "Success" =>
            /\ u.validationStatus \in {"Valid", "Invalid"}
            /\ u.validationStatus = "Valid" => (u.schema # UndefObj /\ u.schema # NullObj)
            /\ (u.schema = UndefObj \/ u.schema = NullObj) => u.validationStatus = "Invalid"

(* After a second generation of the page succeeded, the user emptied the
   editor: Success, no schema, Invalid. *)
C22_Witness ==
    /\ step = "review"
    /\ hist.generations = 2
    /\ gens = <<>>
    /\ \E k \in 1..Len(urlList) :
        /\ urlList[k].generationStatus = "Success"
        /\ urlList[k].schema = NullObj
        /\ urlList[k].validationStatus = "Invalid"


(* C23: a record has generationError set exactly when its generationStatus
   is Failed, also after the page was generated more than once. *)
C23_ErrorIffFailed ==
    \A u \in PageRecords :
        (u.generationError # Undef /\ u.generationError # Null)
            <=> u.generationStatus = "Failed"


(* The URLs of the records of a list. *)
UrlsOf(list) == {list[k].url : k \in 1..Len(list)}

(* The URLs of the list handed to the newest activation of performGeneration. *)
NewestGenerationUrls(g) == UrlsOf(g[Len(g)].urlsToGenerate)

(* C24: every selected URL is a page of the list whose schemaStatus is
   NotFound or AuditRecommended (never Found, Cached, Unknown or
   AnalysisFailed), every list handed to performGeneration holds such pages
   only, and when auto-pilot leaves performAnalysis it starts the generation
   for exactly the pages of the result with one of those two statuses. *)
C24_OnlyProcessablePages ==
    /\ [](/\ \A url \in selectedUrls :
                \E k \in 1..Len(urlList) :
                    /\ urlList[k].url = url
                    /\ urlList[k].schemaStatus \in {"NotFound", "AuditRecommended"}
          /\ \A r \in 1..Len(gens) : \A k \in 1..Len(gens[r].urlsToGenerate) :
                gens[r].urlsToGenerate[k].schemaStatus \in {"NotFound", "AuditRecommended"})
    /\ [][(task.handler = "handleConnect" /\ an.pc = "returned" /\ an'.pc = "idle")
            => LET wanted == {an.result[k].url :
                        k \in {j \in 1..Len(an.result) :
                            an.result[j].schemaStatus \in {"NotFound", "AuditRecommended"}}}
               IN IF wanted = {} THEN gens' = gens
                  ELSE /\ Len(gens') = Len(gens) + 1
                       /\ NewestGenerationUrls(gens') = wanted]_vars

(* Auto-pilot generates for page 1 while page 3, which has a schema already,
   entered the same analysis. *)
C24_Witness ==
    /\ task.handler = "handleConnect" /\ task.pc = "generation"
    /\ hist.entered = {1, 3}
    /\ \E r \in 1..Len(gens) :
        /\ gens[r].caller = "runAutoPilot" /\ ~gens[r].stale
        /\ UrlsOf(gens[r].urlsToGenerate) = {1}


(***************************************************************************)
(* SpecFlows: an auto-pilot run and a manual run of the same site, side by *)
(* side from the same result of performAnalysis.  Each run takes its own   *)
(* steps; the AI gives the same answer to the same request (page and       *)
(* requested type) and WordPress the same answer for the same page, in     *)
(* whichever run and at whatever time it is asked: ai and wp hold the      *)
(* answers given so far.  task holds both runs: per run its stage pc and   *)
(* the pages whose injectSchema calls are in flight (pending); auto is the *)
(* auto-pilot's activation of performGeneration, manualRuns the manual     *)
(* run's activations in the order of their start; urlList, selectedUrls    *)
(* and generationProgress are the manual run's state, autoResults and      *)
(* manualResults the reports.  The user of the manual run does whatever    *)
(* the URL list and the review offer, up to MaxFlowGenerations presses of  *)
(* Generate.                                                               *)
(***************************************************************************)
(* The runs start from what performAnalysis may return for the pages of a
   site when every page fetch gets its response: over the answers to the
   suggestion request and to the opportunity request of each page with
   content. *)
InitFlows ==
    /\ AppInit
    /\ \E urls \in {<<1>>, <<1, 3>>, <<2, 1>>} :
        LET results == [k \in 1..Len(urls) |->
                            analyzeUrl(urls[k], Fetch("ok", ServerResponse(urls[k])),
                                                Fetch("ok", ServerResponse(urls[k])))]
            checked == {results[k].url : k \in OpportunityPositions(results)}
            content(u) == (CHOOSE r \in SeqToSet(results) : r.url = u).content
        IN \E parsed \in SuggestAnswers(UrlsToSuggest(results)),
              answers \in [checked -> OpportunityAnswers] :
        task = [handler |-> "flows",
                pc |-> [auto |-> "analysed", manual |-> "analysed"],
                analysed |-> FinalMap(results, suggestSchemaTypes(parsed),
                    [u \in checked |->
                        detectSchemaOpportunities(content(u), answers[u])]),
                ai |-> [request \in {} |-> "throw"],
                wp |-> [url \in {} |-> "ok"],
                auto |-> performGeneration(<<>>, FormAiConfig, "direct"),
                manualRuns |-> <<>>,
                generationProgress |-> [current |-> 0, total |-> 0],
                urlList |-> <<>>, selectedUrls |-> {},
                pending |-> [auto |-> {}, manual |-> {}],
                autoResults |-> <<>>, manualResults |-> <<>>]
    /\ an = AnIdle
    /\ gens = <<>>
    /\ inj = InjIdle
    /\ hist = HistInit

(* await performAnalysis resumes.  In the auto-pilot run runAutoPilot
   filters the processable pages and goes on to the first generation call;
   in the manual run handleStartAnalysis sets the list and the step, and the
   mount effect of the list items runs. *)
FlowsStart ==
    /\ task.handler = "flows"
    /\ \E flow \in {"auto", "manual"} :
        /\ task.pc[flow] = "analysed"
        /\ LET analyzedUrls == task.analysed
               auto == performGeneration(
                          FilterRecords(analyzedUrls,
                              {k \in 1..Len(analyzedUrls) : Processable(analyzedUrls[k])}),
                          FormAiConfig, "direct")
           IN task' =
                IF flow = "auto"
                THEN [task EXCEPT
                        !.auto = auto,
                        !.pc.auto = IF auto.pc = "returned" THEN "injection"
                                    ELSE "generation"]
                ELSE [task EXCEPT
                        !.urlList = UrlListItemEffect(analyzedUrls),
                        !.pc.manual = "url-list"]
    /\ UNCHANGED <<appVars, an, gens, inj, hist>>

(* A click on the row of a processable page of the manual run's list. *)
FlowsToggleUrl ==
    /\ task.handler = "flows" /\ task.pc.manual = "url-list"
    /\ \E k \in 1..Len(task.urlList) :
        /\ Processable(task.urlList[k])
        /\ task' = [task EXCEPT !.selectedUrls =
                        IF task.urlList[k].url \in @
                        THEN @ \ {task.urlList[k].url}
                        ELSE @ \cup {task.urlList[k].url}]
    /\ UNCHANGED <<appVars, an, gens, inj, hist>>

(* Select All Processable, disabled when no page is processable. *)
FlowsSelectAll ==
    /\ task.handler = "flows" /\ task.pc.manual = "url-list"
    /\ LET processable == {task.urlList[k].url :
                k \in {j \in 1..Len(task.urlList) : Processable(task.urlList[j])}}
       IN /\ processable # {}
          /\ task' = [task EXCEPT !.selectedUrls = processable]
    /\ UNCHANGED <<appVars, an, gens, inj, hist>>

(* Deselect All, disabled when nothing is selected. *)
FlowsDeselectAll ==
    /\ task.handler = "flows" /\ task.pc.manual = "url-list"
    /\ task.selectedUrls # {}
    /\ task' = [task EXCEPT !.selectedUrls = {}]
    /\ UNCHANGED <<appVars, an, gens, inj, hist>>

(* The drop-down of a selected page. *)
FlowsSchemaTypeChange ==
    /\ task.handler = "flows" /\ task.pc.manual = "url-list"
    /\ \E k \in 1..Len(task.urlList), type \in UserTypes :
        /\ task.urlList[k].url \in task.selectedUrls
        /\ Processable(task.urlList[k])
        /\ task' = [task EXCEPT !.urlList[k].selectedSchemaType = type]
    /\ UNCHANGED <<appVars, an, gens, inj, hist>>

(* The Generate button of the manual run (disabled when nothing is
   selected): handleGenerateSchema up to its await. *)
FlowsGenerate ==
    /\ task.handler = "flows" /\ task.pc.manual = "url-list"
    /\ task.selectedUrls # {}
    /\ Len(task.manualRuns) < MaxFlowGenerations
    /\ LET urlsToGenerate == FilterRecords(task.urlList,
                {k \in 1..Len(task.urlList) :
                    task.urlList[k].url \in task.selectedUrls})
       IN task' = [task EXCEPT
            !.generationProgress = [current |-> 0, total |-> Len(urlsToGenerate)],
            !.manualRuns = Append(@, performGeneration(urlsToGenerate,
                                        FormAiConfig, "direct")),
            !.urlList = [k \in 1..Len(task.urlList) |->
                            IF task.urlList[k].url \in task.selectedUrls
                            THEN [task.urlList[k] EXCEPT
                                    !.generationStatus = "Generating"]
                            ELSE task.urlList[k]],
            !.pc.manual = "review"]
    /\ UNCHANGED <<appVars, an, gens, inj, hist>>

(* The generation call in flight of one activation settles (r = 0: the
   auto-pilot's; r > 0: the manual run's r-th): the AI throws, gives a
   complete graph or gives a bare object, as it did if the same request was
   made before.  When a manual activation returns, handleGenerateSchema
   merges its result into the list. *)
FlowsGenerateSettle ==
    /\ task.handler = "flows"
    /\ \E r \in 0..Len(task.manualRuns), kind \in {"throw", "graph", "bare"} :
        LET run == IF r = 0 THEN task.auto ELSE task.manualRuns[r] IN
        /\ IF r = 0 THEN task.pc.auto = "generation" ELSE run.pc = "await_ai"
        /\ LET urlInfo == run.urlsToGenerate[run.idx + 1]
               T == urlInfo.selectedSchemaType
               request == <<urlInfo.url, T>>
               answer == IF kind = "graph" THEN GraphSchema(T)
                         ELSE IF kind = "bare" THEN BareSchema(T)
                         ELSE NullObj
               next == GenerationStep(run, kind = "throw", answer)
               asked == [q \in DOMAIN task.ai \cup {request} |->
                            IF q = request THEN kind ELSE task.ai[q]]
           IN /\ request \in DOMAIN task.ai => kind = task.ai[request]
              /\ task' =
                   IF r = 0
                   THEN [task EXCEPT
                            !.auto = next, !.ai = asked,
                            !.pc.auto = IF next.pc = "returned" THEN "injection"
                                        ELSE "generation"]
                   ELSE [task EXCEPT
                            !.manualRuns[r] = next, !.ai = asked,
                            !.generationProgress.current = @ + 1,
                            !.urlList = IF next.pc = "returned"
                                        THEN MergeGenerated(@, next.currentList)
                                        ELSE @]
    /\ UNCHANGED <<appVars, an, gens, inj, hist>>

(* onBack of the manual run's review; the URL list is mounted again. *)
FlowsBack ==
    /\ task.handler = "flows" /\ task.pc.manual = "review"
    /\ task' = [task EXCEPT !.pc.manual = "url-list",
                            !.urlList = UrlListItemEffect(@)]
    /\ UNCHANGED <<appVars, an, gens, inj, hist>>

(* An edit in the text area of a displayed page of the manual run whose
   generation succeeded. *)
FlowsUpdateSchema ==
    /\ task.handler = "flows" /\ task.pc.manual = "review"
    /\ \E k \in 1..Len(task.urlList) :
        /\ task.urlList[k].url \in task.selectedUrls
        /\ task.urlList[k].generationStatus = "Success"
        /\ \E schema \in EditedSchemas(task.urlList[k].selectedSchemaType) :
            LET validationResult ==
                    validateSchemaClientSide(schema,
                                             task.urlList[k].selectedSchemaType)
            IN task' = [task EXCEPT
                    !.urlList[k].schema = schema,
                    !.urlList[k].validationStatus =
                        IF validationResult.isValid THEN "Valid" ELSE "Invalid",
                    !.urlList[k].validationErrors = validationResult.errors,
                    !.urlList[k].validationWarnings = validationResult.warnings]
    /\ UNCHANGED <<appVars, an, gens, inj, hist>>

(* After generation: runAutoPilot's steps 6 and 7 in the auto-pilot run, and
   in the manual run handleInject when the Inject button is enabled
   (canInject of the review), each up
   to the Promise.all of performInjection on a list of at most BATCH_SIZE
   records.  Without a valid schema runAutoPilot reports the generated list
   and makes no injectSchema call. *)
FlowsInject ==
    /\ task.handler = "flows"
    /\ \E flow \in {"auto", "manual"} :
        LET generatedUrlList == task.auto.currentList
            validSchemas == FilterRecords(generatedUrlList,
                {k \in 1..Len(generatedUrlList) :
                    ValidWithSchema(generatedUrlList[k])})
            schemasToInject == FilterRecords(task.urlList,
                {k \in 1..Len(task.urlList) :
                    /\ task.urlList[k].url \in task.selectedUrls
                    /\ ValidWithSchema(task.urlList[k])})
            injectEnabled ==
                /\ task.generationProgress.current = task.generationProgress.total
                /\ \E k \in 1..Len(task.urlList) :
                    /\ task.urlList[k].url \in task.selectedUrls
                    /\ task.urlList[k].validationStatus = "Valid"
        IN IF flow = "auto"
           THEN /\ task.pc.auto = "injection"
                /\ task' = [task EXCEPT
                        !.autoResults =
                            IF Len(task.auto.urlsToGenerate) = 0 THEN <<>>
                            ELSE IF validSchemas = <<>> THEN generatedUrlList
                            ELSE validSchemas,
                        !.pending.auto = UrlsOf(validSchemas),
                        !.pc.auto = IF validSchemas = <<>> THEN "done"
                                    ELSE "await_inject"]
           ELSE /\ task.pc.manual = "review"
                /\ injectEnabled
                /\ task' = [task EXCEPT
                        !.manualResults = schemasToInject,
                        !.pending.manual = UrlsOf(schemasToInject),
                        !.pc.manual = "await_inject"]
    /\ UNCHANGED <<appVars, an, gens, inj, hist>>

(* The injectSchema call of one run for one page settles, WordPress
   answering as it did if it answered for the page before: the .then
   handler of the call gives the record of that run's report. *)
FlowsInjectSettle ==
    /\ task.handler = "flows"
    /\ \E flow \in {"auto", "manual"}, net \in WpNets :
        /\ task.pc[flow] = "await_inject"
        /\ \E url \in task.pending[flow] :
            LET Resolved(list) ==
                    [k \in 1..Len(list) |->
                        IF list[k].url = url
                        THEN InjectionResolved(list[k],
                                injectSchema(WpScenario(url, net)))
                        ELSE list[k]]
                answered == [u \in DOMAIN task.wp \cup {url} |->
                                IF u = url THEN net ELSE task.wp[u]]
            IN /\ url \in DOMAIN task.wp => net = task.wp[url]
               /\ task' =
                    IF flow = "auto"
                    THEN [task EXCEPT !.autoResults = Resolved(@),
                                      !.pending.auto = @ \ {url},
                                      !.wp = answered]
                    ELSE [task EXCEPT !.manualResults = Resolved(@),
                                      !.pending.manual = @ \ {url},
                                      !.wp = answered]
    /\ UNCHANGED <<appVars, an, gens, inj, hist>>

(* Promise.all of one run resumes and performInjection returns. *)
FlowsInjectReturned ==
    /\ task.handler = "flows"
    /\ \E flow \in {"auto", "manual"} :
        /\ task.pc[flow] = "await_inject"
        /\ task.pending[flow] = {}
        /\ task' = [task EXCEPT !.pc[flow] = "done"]
    /\ UNCHANGED <<appVars, an, gens, inj, hist>>

SpecFlows ==
    InitFlows
    /\ [][FlowsStart \/ FlowsToggleUrl \/ FlowsSelectAll \/ FlowsDeselectAll
           \/ FlowsSchemaTypeChange \/ FlowsGenerate \/ FlowsGenerateSettle
           \/ FlowsBack \/ FlowsUpdateSchema
           \/ FlowsInject \/ FlowsInjectSettle \/ FlowsInjectReturned]_vars

(* The record of a page at the end of a flow: the one of the report if the
   page is in it, else the one of the list. *)
RecordOf(url, report, list) ==
    IF url \in UrlsOf(report)
    THEN CHOOSE r \in SeqToSet(report) : r.url = url
    ELSE CHOOSE r \in SeqToSet(list) : r.url = url

AutoRecord(url) ==
    RecordOf(url, task.autoResults,
             MergeGenerated(task.analysed, task.auto.currentList))

ManualRecord(url) == RecordOf(url, task.manualResults, task.urlList)

(* The list the manual run is mounted with, and its processable pages. *)
MountedList == UrlListItemEffect(task.analysed)

MountedProcessable ==
    {k \in 1..Len(MountedList) : Processable(MountedList[k])}

(* The manual run in which the user selects every processable page and
   makes no edit, at its end: nothing was processable, or Generate was
   pressed once, with every processable page selected and the types the
   list was mounted with, the list holds what that generation returned, and
   either every valid schema was injected or none was there to inject. *)
ManualRunOfEverything ==
    \/ /\ task.pc.manual = "url-list"
       /\ MountedProcessable = {}
    \/ /\ Len(task.manualRuns) = 1
       /\ task.manualRuns[1].pc = "returned"
       /\ task.manualRuns[1].urlsToGenerate =
                FilterRecords(MountedList, MountedProcessable)
       /\ task.selectedUrls = UrlsOf(task.manualRuns[1].urlsToGenerate)
       /\ task.urlList = MergeGenerated(MountedList, task.manualRuns[1].currentList)
       /\ \/ /\ task.pc.manual = "review"
             /\ \A k \in 1..Len(task.urlList) :
                    task.urlList[k].url \in task.selectedUrls
                        => task.urlList[k].validationStatus # "Valid"
          \/ /\ task.pc.manual = "done"
             /\ UrlsOf(task.manualResults) =
                    {task.urlList[k].url :
                        k \in {j \in 1..Len(task.urlList) :
                                    ValidWithSchema(task.urlList[j])}}

(* C25: with the same responses, auto-pilot and the manual flow in which
   every processable page was selected and nothing edited end with the same
   selected schema type, generated schema, validation status and injection
   outcome for every URL. *)
C25_AutoPilotEqualsManual ==
    (/\ task.handler = "flows"
     /\ task.pc.auto = "done"
     /\ ManualRunOfEverything) =>
        \A url \in UrlsOf(task.analysed) :
            /\ AutoRecord(url).selectedSchemaType = ManualRecord(url).selectedSchemaType
            /\ AutoRecord(url).schema = ManualRecord(url).schema
            /\ AutoRecord(url).validationStatus = ManualRecord(url).validationStatus
            /\ AutoRecord(url).injectionStatus = ManualRecord(url).injectionStatus


(* The wizard's stages, in order. *)
StageNumber(s) ==
    CASE s = "credentials" -> 1
      [] s = "sitemap-selection" -> 2
      [] s = "url-list" -> 3
      [] s = "review" -> 4
      [] s = "complete" -> 5

(* C26 as stated: every change of step advances to the next stage or goes
   back to 'credentials'. *)
C26_StepAdvancesOrRestarts ==
    [][step' # step =>
          \/ StageNumber(step') = StageNumber(step) + 1
          \/ step' = "credentials"]_vars

(* C26, amended: every change of step advances to the next stage, goes back
   to 'credentials', goes from 'review' back to 'url-list' (Back to
   Selection), or takes an auto-pilot run from 'credentials' straight to
   'complete'. *)
C26_StepAdvancesRestartsBackOrAutoPilot ==
    [][step' # step =>
          \/ StageNumber(step') = StageNumber(step) + 1
          \/ step' = "credentials"
          \/ step = "review" /\ step' = "url-list"
          \/ /\ step = "credentials" /\ step' = "complete"
             /\ task.handler = "handleConnect" /\ task.isAutoPilot]_vars

(* A manual run at 'complete' that went from 'review' back to 'url-list' and
   on to 'review' again. *)
C26_Witness ==
    /\ step = "complete"
    /\ ~task.isAutoPilot
    /\ hist.generations = 2
    /\ hist.injectCalls # {}


(* C27: in manual mode the Inject button is enabled, and handleInject runs,
   only when no activation of performGeneration started in this run is still
   in flight. *)
C27_InjectOnlyAfterGeneration ==
    /\ (AtReview /\ canInject /\ wpCreds # Null) => \A r \in 1..Len(gens) : gens[r].stale
    /\ (task.handler = "handleInject" /\ inj.pc = "await_batch" /\ inj.i = 0
            /\ inj.settled = <<>>)
        => \A r \in 1..Len(gens) : gens[r].stale


(* C28: generationProgress.current never exceeds generationProgress.total,
   and it equals total only when no URL of a generation run of this wizard
   run is left to process. *)
C28_ProgressBounded ==
    /\ generationProgress.current <= generationProgress.total
    /\ (\E r \in 1..Len(gens) : ~gens[r].stale /\ gens[r].pc = "await_ai")
        => generationProgress.current < generationProgress.total


(* C29: every record handed to injectSchema has generationStatus Success,
   the status of its latest generation attempt: a page whose latest attempt
   failed is not injected with the schema of an earlier attempt. *)
C29_NoStaleSchemaInjected ==
    \A r \in hist.injectCalls : r.generationStatus = "Success"


(***************************************************************************)
(* SpecConnectFair: handleConnect, manual and auto-pilot, against the      *)
(* sites of SitemapRoots, fetchAndParseSitemap followed await by await.    *)
(* After                                                                   *)
(* Promise.all of the validations task becomes the activation of           *)
(* parseSitemap and keeps handler and isAutoPilot; the auto-pilot run goes *)
(* on through performAnalysis, performGeneration and performInjection.     *)
(* The user connects and restarts, nothing else.  Of the activations of    *)
(* parseSitemap awaiting a nested one, the innermost MaxSitemapDepth are   *)
(* kept: the outer ones of a deeper recursion are resumed by a throw only, *)
(* which unwinds them all, and are not told apart.                         *)
(***************************************************************************)
(* fetchAndParseSitemap(creds, ...) up to the first fetch of parseSitemap;
   the sitemap URL is the one of the credentials. *)
fetchAndParseSitemap ==
    /\ task.handler = "handleConnect" /\ task.pc = "crawl"
    /\ \E root \in SitemapRoots :
        task' = [handler |-> "handleConnect", isAutoPilot |-> task.isAutoPilot,
                 root |-> root, stack |-> <<parseSitemap(root)>>,
                 pc |-> "await_crawl_fetch", direct |-> "pending",
                 gateway |-> [kind |-> "pending", response |-> NoResponse,
                              message |-> Undef, attempts |-> <<"direct">>],
                 result |-> <<>>]
    /\ UNCHANGED <<appVars, an, gens, inj, hist>>

(* The fetch the innermost activation of parseSitemap awaits settles, inside
   handleConnect: the proxy request is made, the activation throws, or it
   goes on to await response.text(). *)
CrawlFetchSettle ==
    /\ task.handler = "handleConnect"
    /\ task.pc \in {"await_crawl_fetch", "await_crawl_proxy"}
    /\ \E outcome \in NetOutcomes :
        LET url == task.stack[Len(task.stack)].url
            settled == Fetch(outcome, SitemapServer(url))
            d == IF task.pc = "await_crawl_fetch" THEN settled
                 ELSE Fetch(task.direct, SitemapServer(url))
            r == fetchWithCorsFallback(d, settled)
        IN task' =
            IF task.pc = "await_crawl_fetch" /\ "proxy" \in SeqToSet(r.attempts)
            THEN [task EXCEPT !.pc = "await_crawl_proxy", !.direct = outcome]
            ELSE IF r.kind = "throw" \/ ~ResponseOk(r.response)
            THEN [task EXCEPT !.stack = <<>>, !.pc = "thrown", !.gateway = r]
            ELSE [task EXCEPT !.stack[Len(task.stack)].awaiting = "text",
                              !.pc = "await_crawl_text", !.gateway = r]
    /\ UNCHANGED <<appVars, an, gens, inj, hist>>

(* response.text() of the innermost activation resolves and the document is
   parsed, inside handleConnect. *)
CrawlTextSettle ==
    /\ task.handler = "handleConnect" /\ task.pc = "await_crawl_text"
    /\ LET callers == SubSeq(task.stack, 1, Len(task.stack) - 1)
           url == task.stack[Len(task.stack)].url
           next == IF SitemapFailure(task.gateway) # Undef
                   THEN [stack |-> <<>>, pc |-> "thrown", result |-> <<>>]
                   ELSE ParseDocument(callers, url, task.gateway.response)
           Innermost(stack) ==
               IF Len(stack) <= MaxSitemapDepth THEN stack
               ELSE SubSeq(stack, Len(stack) - MaxSitemapDepth + 1, Len(stack))
       IN task' = [task EXCEPT
                    !.stack = Innermost(next.stack),
                    !.pc = IF next.pc = "await_fetch" THEN "await_crawl_fetch"
                           ELSE next.pc,
                    !.direct = "pending",
                    !.gateway = [kind |-> "pending", response |-> NoResponse,
                                 message |-> Undef, attempts |-> <<"direct">>],
                    !.result = next.result]
    /\ UNCHANGED <<appVars, an, gens, inj, hist>>

(* fetchAndParseSitemap returned or threw: the rest of runManualCrawl up to
   its await of categorizeSitemaps, or of runAutoPilot up to its await of
   performAnalysis; a throw goes to the catch block of handleConnect. *)
CrawlReturned ==
    /\ task.handler = "handleConnect" /\ task.pc \in {"returned", "thrown"}
    /\ LET groups == task.result
           allUrls == Dedup(FlatMapUrls(groups))
           analysing == task.pc = "returned" /\ Len(groups) # 0 /\ task.isAutoPilot
       IN
       /\ hist' = [hist EXCEPT
             !.setupFailed = task.pc = "thrown" \/ Len(groups) = 0,
             !.entered = IF analysing THEN SeqToSet(allUrls) ELSE @,
             !.calls = IF analysing THEN @ \cup {"analysis"} ELSE @]
       /\ IF task.pc = "thrown" THEN
             /\ ConnectFailed("Could not fetch or parse sitemap.")
             /\ UNCHANGED <<sitemapGroups, an>>
          ELSE IF Len(groups) = 0 THEN
             /\ ConnectFailed("No sitemaps or URLs found.")
             /\ UNCHANGED <<sitemapGroups, an>>
          ELSE IF task.isAutoPilot THEN
             /\ an' = performAnalysis(allUrls, "runAutoPilot")
             /\ task' = [pc |-> "analysis", handler |-> "handleConnect",
                         isAutoPilot |-> TRUE]
             /\ UNCHANGED <<sitemapGroups, error, isLoading>>
          ELSE
             /\ sitemapGroups' = groups
             /\ task' = [pc |-> "categorize", handler |-> "handleConnect",
                         isAutoPilot |-> FALSE]
             /\ UNCHANGED <<an, error, isLoading>>
    /\ UNCHANGED <<step, wpCreds, aiConfig, businessInfo, categorizedSitemaps,
                   selectedSitemaps, urlList, selectedUrls, generationProgress,
                   injectionResults, gens, inj>>

(* categorizeSitemaps settles in runManualCrawl, for the groups of the site
   that was crawled: the parsed answer has no primary or secondary array and
   it throws, or the AI makes every group primary, or the first one primary
   and the others secondary, or the request failed and the fallback sorts
   the groups by their names. *)
CategorizeCrawledSettle ==
    /\ task.pc = "categorize"
    /\ \/ /\ ConnectFailed("Cannot read properties of undefined")
          /\ UNCHANGED <<step, categorizedSitemaps, selectedSitemaps>>
       \/ \E answer \in
              LET names == {sitemapGroups[k].sitemapUrl : k \in 1..Len(sitemapGroups)}
                  first == sitemapGroups[1].sitemapUrl
              IN {[primary |-> names, secondary |-> {}],
                  [primary |-> {first}, secondary |-> names \ {first}],
                  categorizeSitemapsFallback(names)} :
            LET categorized == categorizeSitemaps(sitemapGroups, answer) IN
            /\ categorizedSitemaps' = categorized
            /\ selectedSitemaps' =
                  {categorized.primary[k].sitemapUrl : k \in 1..Len(categorized.primary)}
            /\ step' = "sitemap-selection"
            /\ isLoading' = FALSE
            /\ task' = TaskIdle
            /\ UNCHANGED error
    /\ UNCHANGED <<wpCreds, aiConfig, businessInfo, sitemapGroups, urlList,
                   selectedUrls, generationProgress, injectionResults,
                   an, gens, inj, hist>>

(* The steps the user does not take: a call in flight settles, or a handler
   goes on after its await. *)
ConnectSettles ==
    \/ ValidateSettle
    \/ fetchAndParseSitemap
    \/ CrawlFetchSettle
    \/ CrawlTextSettle
    \/ CrawlReturned
    \/ CategorizeCrawledSettle
    \/ AnalyzeUrlSettle
    \/ AnalysisBatchResume
    \/ SuggestSettle
    \/ DetectOpportunitiesSettle
    \/ runAutoPilotAnalysed
    \/ GenerateSettle
    \/ InjectSchemaSettle
    \/ InjectionBatchResume
    \/ InjectionReturned

(* Every call in flight settles in the end and every handler goes on after
   its await. *)
SpecConnectFair ==
    Init
    /\ [][handleConnect \/ handleRestart \/ ConnectSettles]_vars
    /\ WF_vars(ConnectSettles)

(* C30: every run of handleConnect leaves isLoading false in the end, and an
   auto-pilot run ends, with no step of the user, at 'complete' or at
   'credentials' with the error set. *)
C30_EveryRunReleasesBusy ==
    /\ isLoading ~> ~isLoading
    /\ (task.handler = "handleConnect" /\ task.isAutoPilot)
        ~> (/\ ~isLoading
            /\ \/ step = "complete"
               \/ step = "credentials" /\ error # Null)

====
